---- MODULE Spec2Model ----
(***************************************************************************)
(* tradify-cli: the incremental table-scan and conditional-update engine.  *)
(*                                                                         *)
(* Two versions of the engine live in the repository and both are modelled *)
(* here, selected by cfg.Engine:                                           *)
(*   "progress" : RunMySQLWithProgress (processWithPK / processNoPK with a *)
(*                progress bar), src/unnamed/part_000                      *)
(*   "plain"    : RunMySQL (processWithPK / processNoPK),                  *)
(*                src/internal/mysql.go                                    *)
(* A definition that models mysql.go carries the suffix Plain; a           *)
(* definition without it models part_000 (or code both files share).       *)
(*                                                                         *)
(* The database is part of the state: a table is a sequence of rows in     *)
(* storage order, a row a function from column name to sql.NullString.     *)
(*                                                                         *)
(* Specifications:                                                         *)
(*   Spec          one table scan, with query, decode and update failures  *)
(*   SpecPair      a dry run and a live run of mysql.go side by side       *)
(*   SpecConv      the conversion oracle and the Row Transformer           *)
(*   SpecTwice     the command run twice on the same table                 *)
(*   SpecScenario  the keyset walk-through on the three-row table          *)
(*   SpecOffset    offset mode on tables with near-equal and equal rows    *)
(*   SpecMulti     RunMySQLFromFileConfig: semaphore, wait group, errCh    *)
(*   SpecSetup     setup phase, scan and return of one run                 *)
(*   SpecFile      a config file with one table, loaded and run            *)
(*   SpecOverride  defaults and table-level overrides of a config file     *)
(*   SpecPool      concurrent calls of GetConverter                        *)
(*   SpecRunFile   RunFile: directory walk, task channel, file workers     *)
(*   SpecRow       one table scan over rows with two transform columns     *)
(*   SpecStart     a scan started from the command line or a config file   *)
(*   SpecWait      one run of RunMySQL up to the return of p.Wait (fair)   *)
(***************************************************************************)
EXTENDS Integers, Sequences, FiniteSets, TLC

VARIABLES
    cfg,    \* MySQLConfig of the run (immutable)
    w,      \* the table scan: database table, loop position, logs
    w2,     \* a second scan over a copy of the same table (dry/live pair)
    conv,   \* the conversion oracle: ccPool and the last call made to it
    run     \* the driver above the scan: setup phase, multi-table runner

vars == <<cfg, w, w2, conv, run>>

-----------------------------------------------------------------------------
(* Bounds of the model *)

MaxRows == 3        \* rows in the table
MaxBatch == 2       \* cfg.BatchSize ranges over 1..MaxBatch
MaxFaults == 1      \* injected failures (query, decode, update) per run
MaxSelects == 5     \* batch SELECTs issued per run
MaxTables == 3      \* table entries of a config file
MaxParallel == 2    \* tables_parallel of a config file ranges over -1..MaxParallel
MaxCallers == 2     \* goroutines calling GetConverter
MaxCalls == 2       \* calls of GetConverter per goroutine
MaxWorkers == 2     \* cfg.Workers of RunFile ranges over 0..MaxWorkers
MaxPairRows == 2    \* rows of the tables of SpecRow

-----------------------------------------------------------------------------
(* Values: database/sql.NullString *)

NS(s) == [Valid |-> TRUE, String |-> s]
NullNS == [Valid |-> FALSE, String |-> ""]

\* nz: the string of a NullString, "" for NULL
nz(ns) == IF ns.Valid THEN ns.String ELSE ""

\* anyValid over a key tuple
anyValid(keys) == \E i \in 1..Len(keys) : keys[i].Valid

\* indexOf: first position of s in arr, -1 when absent
indexOf(arr, s) ==
    IF \E i \in 1..Len(arr) : arr[i] = s
    THEN CHOOSE i \in 1..Len(arr) : arr[i] = s /\ \A j \in 1..(i-1) : arr[j] # s
    ELSE -1

-----------------------------------------------------------------------------
(* Text and the conversion oracle (convert.go).  A string value is a token *)
(* standing for a sequence of runes; Runes gives its code points.          *)

Runes(s) ==
    CASE s = ""       -> <<>>
      [] s = "1"      -> <<49>>
      [] s = "2"      -> <<50>>
      [] s = "3"      -> <<51>>
      [] s = "abc"    -> <<97, 98, 99>>
      [] s = "cafe"   -> <<99, 97, 102, 233>>       \* ends with U+00E9
      [] s = "jianti" -> <<31616, 20307>>           \* U+7B80 U+4F53
      [] s = "fanti"  -> <<31777, 39636>>           \* U+7C21 U+9AD4
      [] s = "huai"   -> <<22351>>                  \* U+574F
      [] s = "jian"   -> <<31616>>                  \* U+7B80
      [] s = "fan"    -> <<31777>>                  \* U+7C21
      [] s = "hunti"  -> <<31777, 20307>>           \* U+7C21 U+4F53
      [] OTHER        -> <<>>

\* unicode.Is(unicode.Han, r), on the code points used here
IsHan(r) == r >= 19968 /\ r <= 40959

HasChinese(s) == \E i \in 1..Len(Runes(s)) : IsHan(Runes(s)[i])

IsASCIIOnly(s) ==
    IF s = "" THEN TRUE ELSE \A i \in 1..Len(Runes(s)) : ~(Runes(s)[i] > 127)

\* opencc.New(to) succeeds for the variants the library ships
KnownVariants == {"s2t", "s2tw", "s2twp", "t2s"}

\* cc.Convert on the texts used here: 简 and 体 are simplified, 簡 and 體
\* their traditional forms; the s2t variants replace the former by the
\* latter, t2s the latter by the former
OpenCCConvert(to, in) ==
    IF to \in {"s2t", "s2tw", "s2twp"} /\ in \in {"jianti", "hunti"} THEN "fanti"
    ELSE IF to \in {"s2t", "s2tw", "s2twp"} /\ in = "jian" THEN "fan"
    ELSE IF to = "t2s" /\ in \in {"fanti", "hunti"} THEN "jianti"
    ELSE IF to = "t2s" /\ in = "fan" THEN "jian"
    ELSE in

\* cc.Convert(in) returns an error: the library's outcome on the text "huai"
ConvertErr(in) == in = "huai"

\* mutant of ConvertIfNeeded: the converter is obtained before the input
\* is looked at
ConvertIfNeededEager(to, in) ==
    IF to \notin KnownVariants
    THEN [out |-> "", need |-> FALSE, err |-> TRUE, calls |-> <<"GetConverter">>]
    ELSE IF in = "" \/ IsASCIIOnly(in) \/ ~HasChinese(in)
    THEN [out |-> in, need |-> FALSE, err |-> FALSE, calls |-> <<"GetConverter">>]
    ELSE IF ConvertErr(in)
    THEN [out |-> "", need |-> FALSE, err |-> TRUE,
          calls |-> <<"GetConverter", "Convert">>]
    ELSE IF OpenCCConvert(to, in) = in
    THEN [out |-> in, need |-> FALSE, err |-> FALSE,
          calls |-> <<"GetConverter", "Convert">>]
    ELSE [out |-> OpenCCConvert(to, in), need |-> TRUE, err |-> FALSE,
          calls |-> <<"GetConverter", "Convert">>]

\* ConvertIfNeeded(to, in) = (out, need, err); calls lists the calls it
\* makes to the converter factory and to the converter
ConvertIfNeeded(to, in) ==
    IF in = "" \/ IsASCIIOnly(in) \/ ~HasChinese(in)
    THEN [out |-> in, need |-> FALSE, err |-> FALSE, calls |-> <<>>]
    ELSE IF to \notin KnownVariants
    THEN [out |-> "", need |-> FALSE, err |-> TRUE, calls |-> <<"GetConverter">>]
    ELSE IF ConvertErr(in)
    THEN [out |-> "", need |-> FALSE, err |-> TRUE,
          calls |-> <<"GetConverter", "Convert">>]
    ELSE IF OpenCCConvert(to, in) = in
    THEN [out |-> in, need |-> FALSE, err |-> FALSE,
          calls |-> <<"GetConverter", "Convert">>]
    ELSE [out |-> OpenCCConvert(to, in), need |-> TRUE, err |-> FALSE,
          calls |-> <<"GetConverter", "Convert">>]

\* ccPool after GetConverter(to): a converter that opencc.New built is kept
GetConverter(pool, to) == IF to \in KnownVariants THEN pool \cup {to} ELSE pool

\* ccPool before any call; no call made yet
NewPool == [pool |-> {}, last |-> [kind |-> "none"]]

\* no driver above the scan
NoDriver == [kind |-> "none"]

-----------------------------------------------------------------------------
(* The SQL engine the scanner talks to (MySQL semantics of the statements  *)
(* the code sends).                                                        *)

\* columns of the table in ORDINAL_POSITION order (getAllColumns)
AllCols == <<"id", "k2", "a", "b">>

\* collation order of the values
ValueOrder == <<"", "1", "2", "3", "abc", "cafe", "huai", "jianti", "fanti">>
Rank(s) == CHOOSE i \in 1..Len(ValueOrder) : ValueOrder[i] = s

\* SQL three-valued logic: "T", "F", "U" (unknown, i.e. NULL)
Gt3(a, x) == IF ~a.Valid THEN "U" ELSE IF Rank(a.String) > Rank(x) THEN "T" ELSE "F"
Eq3(a, x) == IF ~a.Valid THEN "U" ELSE IF a.String = x THEN "T" ELSE "F"
And3(p, q) ==
    IF p = "F" \/ q = "F" THEN "F" ELSE IF p = "T" /\ q = "T" THEN "T" ELSE "U"
Or3(p, q) ==
    IF p = "T" \/ q = "T" THEN "T" ELSE IF p = "F" /\ q = "F" THEN "F" ELSE "U"

\* row comparison (k1,...,kn) > (x1,...,xn):
\* (k1 > x1) OR ((k1 = x1) AND (k2,...,kn) > (x2,...,xn))
RECURSIVE RowGt3(_, _)
RowGt3(ks, xs) ==
    IF Len(ks) = 1 THEN Gt3(ks[1], xs[1])
    ELSE Or3(Gt3(ks[1], xs[1]),
             And3(Eq3(ks[1], xs[1]), RowGt3(Tail(ks), Tail(xs))))

\* the key tuple of a row
KeyOf(vals, pk) == [i \in 1..Len(pk) |-> vals[pk[i]]]

\* ORDER BY ascending: NULL sorts first
SortRank(ns) == IF ns.Valid THEN Rank(ns.String) ELSE 0

RECURSIVE LexLess(_, _)
LexLess(k1, k2) ==
    IF Len(k1) = 0 THEN FALSE
    ELSE IF SortRank(k1[1]) # SortRank(k2[1]) THEN SortRank(k1[1]) < SortRank(k2[1])
    ELSE LexLess(Tail(k1), Tail(k2))

\* rows i before j under ORDER BY pk (ties keep storage order)
Before(table, pk, i, j) ==
    \/ LexLess(KeyOf(table[i], pk), KeyOf(table[j], pk))
    \/ /\ ~LexLess(KeyOf(table[j], pk), KeyOf(table[i], pk))
       /\ i < j

RECURSIVE SortIdx(_, _, _)
SortIdx(table, S, pk) ==
    IF S = {} THEN <<>>
    ELSE LET m == CHOOSE i \in S : \A j \in S \ {i} : Before(table, pk, i, j)
         IN  <<m>> \o SortIdx(table, S \ {m}, pk)

Take(seq, n) == IF n <= 0 THEN <<>> ELSE SubSeq(seq, 1, IF n < Len(seq) THEN n ELSE Len(seq))

Fetched(table, idx) == [k \in 1..Len(idx) |-> [rid |-> idx[k], vals |-> table[idx[k]]]]

\* SELECT ... [WHERE (pk) > (args)] ORDER BY pk LIMIT limit
SelectKeyset(table, pk, hasWhere, args, limit) ==
    LET S == {i \in 1..Len(table) :
                 hasWhere => RowGt3(KeyOf(table[i], pk), args) = "T"}
    IN  Fetched(table, Take(SortIdx(table, S, pk), limit))

\* SELECT ... LIMIT limit OFFSET offset. The statement has no ORDER BY; the
\* rows come in storage order, which an UPDATE of a non-key column keeps.
SelectOffset(table, limit, offset) ==
    Fetched(table, Take([k \in 1..(IF Len(table) > offset THEN Len(table) - offset ELSE 0)
                            |-> offset + k], limit))

\* An UPDATE statement: sql = [set: columns, where: predicates, limit1],
\* a predicate [col, op] with op "eq" (`col` = ?) or "isnull" (`col` IS NULL).
\* The placeholders are bound in text order: SET first, then WHERE.
NumEq(where) == Cardinality({i \in 1..Len(where) : where[i].op = "eq"})

EqPos(where, i) == Cardinality({j \in 1..i : where[j].op = "eq"})

Matches(vals, sql, args) ==
    \A i \in 1..Len(sql.where) :
        IF sql.where[i].op = "isnull"
        THEN ~vals[sql.where[i].col].Valid
        ELSE Eq3(vals[sql.where[i].col], args[Len(sql.set) + EqPos(sql.where, i)]) = "T"

\* the statement is accepted by the server
WellFormed(sql, args) ==
    /\ Len(sql.set) > 0
    /\ Len(sql.where) > 0
    /\ Len(args) = Len(sql.set) + NumEq(sql.where)

\* the rows an UPDATE changes
Targets(table, sql, args) ==
    LET M == {i \in 1..Len(table) : Matches(table[i], sql, args)}
    IN  IF sql.limit1 /\ M # {}
        THEN {CHOOSE i \in M : \A j \in M : i <= j}
        ELSE M

\* the table after the UPDATE
ExecUpdate(table, sql, args) ==
    IF ~WellFormed(sql, args) THEN table
    ELSE LET T == Targets(table, sql, args)
         IN  [i \in 1..Len(table) |->
                 IF i \in T
                 THEN [c \in DOMAIN table[i] |->
                          IF indexOf(sql.set, c) > 0
                          THEN NS(args[indexOf(sql.set, c)])
                          ELSE table[i][c]]
                 ELSE table[i]]

-----------------------------------------------------------------------------
(* Row Transformer and Update Planner *)

Range(seq) == {seq[i] : i \in 1..Len(seq)}

\* mutant of ChangedPK: the need flag of the oracle is not consulted
ChangedPKIgnoringNeed(c, data) ==
    LET D == {col \in Range(c.Columns) :
                 /\ data[col].Valid
                 /\ data[col].String # ""
                 /\ ~ConvertIfNeeded(c.To, data[col].String).err}
    IN  [col \in D |-> ConvertIfNeeded(c.To, data[col].String).out]

\* mutant of ChangedPK: the column loop stops at the first column that is
\* NULL, empty or fails to convert
ChangedPKStopAtError(c, data) ==
    LET Bad(col) == \/ ~data[col].Valid
                    \/ data[col].String = ""
                    \/ ConvertIfNeeded(c.To, data[col].String).err
        D == {col \in Range(c.Columns) :
                 /\ \A j \in 1..indexOf(c.Columns, col) : ~Bad(c.Columns[j])
                 /\ ConvertIfNeeded(c.To, data[col].String).need}
    IN  [col \in D |-> ConvertIfNeeded(c.To, data[col].String).out]

\* processWithPK: the changed map of a row (column -> new value)
ChangedPK(c, data) ==
    LET D == {col \in Range(c.Columns) :
                 /\ data[col].Valid
                 /\ data[col].String # ""
                 /\ ~ConvertIfNeeded(c.To, data[col].String).err
                 /\ ConvertIfNeeded(c.To, data[col].String).need}
    IN  [col \in D |-> ConvertIfNeeded(c.To, data[col].String).out]

\* processNoPK: the changed map of a row; a column missing from allCols is skipped
ChangedNoPK(c, allCols, rowVals) ==
    LET D == {col \in Range(c.Columns) :
                 /\ ~(indexOf(allCols, col) < 0)
                 /\ rowVals[col].Valid
                 /\ rowVals[col].String # ""
                 /\ ~ConvertIfNeeded(c.To, rowVals[col].String).err
                 /\ ConvertIfNeeded(c.To, rowVals[col].String).need}
    IN  [col \in D |-> ConvertIfNeeded(c.To, rowVals[col].String).out]

\* mutant of SetParts: only the first changed column is listed
SetPartsFirstOnly(columns, changed) ==
    IF SelectSeq(columns, LAMBDA col : col \in DOMAIN changed) = <<>> THEN <<>>
    ELSE <<Head(SelectSeq(columns, LAMBDA col : col \in DOMAIN changed))>>

\* setParts / the SET arguments, in cfg.Columns order
SetParts(columns, changed) == SelectSeq(columns, LAMBDA col : col \in DOMAIN changed)
SetArgs(columns, changed) ==
    [i \in 1..Len(SetParts(columns, changed)) |-> changed[SetParts(columns, changed)[i]]]

\* mutant of WherePred: every predicate is `col = ?`
WherePredAlwaysEq(col, ns) == [col |-> col, op |-> "eq"]

\* one WHERE predicate and the argument it binds
WherePred(col, ns) ==
    IF ns.Valid THEN [col |-> col, op |-> "eq"] ELSE [col |-> col, op |-> "isnull"]
WhereArg(ns) == IF ns.Valid THEN <<ns.String>> ELSE <<>>

RECURSIVE WhereArgs(_, _)
WhereArgs(cols, vals) ==
    IF cols = <<>> THEN <<>>
    ELSE WhereArg(vals[Head(cols)]) \o WhereArgs(Tail(cols), vals)

WhereOf(cols, vals) == [i \in 1..Len(cols) |-> WherePred(cols[i], vals[cols[i]])]

\* processWithPK: UPDATE ... SET ... WHERE pk1 = ? AND ...
BuildUpdatePK(c, vals, changed) ==
    [sql  |-> [set    |-> SetParts(c.Columns, changed),
               where  |-> WhereOf(c.PK, vals),
               limit1 |-> FALSE],
     args |-> SetArgs(c.Columns, changed) \o WhereArgs(c.PK, vals)]

\* the WHERE columns of processNoPK: identify-by columns that exist in the
\* table, or every column of the table
WhereColsNoPK(c, allCols) ==
    IF Len(c.IdentifyBy) > 0
    THEN SelectSeq(c.IdentifyBy, LAMBDA col : ~(indexOf(allCols, col) < 0))
    ELSE allCols

\* processNoPK of part_000: SET arguments first, then WHERE arguments
BuildUpdateNoPK(c, allCols, rowVals, changed) ==
    [sql  |-> [set    |-> SetParts(c.Columns, changed),
               where  |-> WhereOf(WhereColsNoPK(c, allCols), rowVals),
               limit1 |-> Len(c.IdentifyBy) = 0],
     args |-> SetArgs(c.Columns, changed)
                 \o WhereArgs(WhereColsNoPK(c, allCols), rowVals)]

\* processNoPK of mysql.go: WHERE arguments are appended before the SET ones
BuildUpdateNoPKPlain(c, allCols, rowVals, changed) ==
    [sql  |-> [set    |-> SetParts(c.Columns, changed),
               where  |-> WhereOf(WhereColsNoPK(c, allCols), rowVals),
               limit1 |-> Len(c.IdentifyBy) = 0],
     args |-> WhereArgs(WhereColsNoPK(c, allCols), rowVals)
                 \o SetArgs(c.Columns, changed)]

-----------------------------------------------------------------------------
(* The scan loop.  A scan x is a record:                                   *)
(*   table   the database table                                            *)
(*   pc      "select" (top of the for loop), "rows" (inside the row loop), *)
(*           "advance" (after the row loop), "done" (returned)             *)
(*   ret     "none" while running, "nil" once the function returned nil    *)
(*   lastKey, offset, batch, i, n   the locals of processWithPK/processNoPK*)
(*   fetched number of rows the last SELECT returned                       *)
(*   faults, nsel   failures injected and SELECTs issued so far            *)
(*   selLog, visits, execLog, dryLog   history: SELECTs issued, rows that  *)
(*           entered the transform step, statements passed to ExecContext, *)
(*           statements printed with [DRYRUN]                              *)

NewScan(table, c) ==
    [table   |-> table,
     pc      |-> "select",
     ret     |-> "none",
     lastKey |-> [i \in 1..Len(c.PK) |-> NullNS],
     offset  |-> 0,
     batch   |-> <<>>,
     i       |-> 1,
     n       |-> 0,
     fetched |-> 0,
     faults  |-> 0,
     nsel    |-> 0,
     selLog  |-> <<>>,
     visits  |-> <<>>,
     execLog |-> <<>>,
     dryLog  |-> <<>>]

Rids(rows) == [k \in 1..Len(rows) |-> rows[k].rid]

RECURSIVE DropAt(_, _, _)
\* the rows of seq whose position (counted from k) is not in bad
DropAt(seq, bad, k) ==
    IF seq = <<>> THEN <<>>
    ELSE (IF k \in bad THEN <<>> ELSE <<Head(seq)>>) \o DropAt(Tail(seq), bad, k + 1)

\* the keyset SELECT the loop builds from lastKey
KeysetQuery(x, c) ==
    [where  |-> anyValid(x.lastKey),
     args   |-> [i \in 1..Len(c.PK) |-> nz(x.lastKey[i])],
     offset |-> 0]

\* the offset SELECT
OffsetQuery(x, c) == [where |-> FALSE, args |-> <<>>, offset |-> x.offset]

\* mutant of QueryFailed: the query error is returned to the caller
QueryFailedFatal(x, q) ==
    [x EXCEPT !.nsel   = @ + 1,
              !.faults = @ + 1,
              !.selLog = Append(@, [q |-> q, ok |-> FALSE, rids |-> <<>>, batch |-> <<>>]),
              !.pc     = "done",
              !.ret    = "err"]

\* db.Query failed: log, sleep 5 s, continue
QueryFailed(x, q) ==
    [x EXCEPT !.nsel   = @ + 1,
              !.faults = @ + 1,
              !.selLog = Append(@, [q |-> q, ok |-> FALSE, rids |-> <<>>, batch |-> <<>>])]

\* processWithPK: SELECT, decode every row (rows in bad fail rows.Scan and
\* are left out of the batch), return nil when the batch is empty
FetchPK(x, c, bad) ==
    LET q     == KeysetQuery(x, c)
        rs    == SelectKeyset(x.table, c.PK, q.where, q.args, c.BatchSize)
        batch == DropAt(rs, bad, 1)
    IN  [x EXCEPT !.nsel    = @ + 1,
                  !.faults  = @ + Cardinality(bad),
                  !.selLog  = Append(@, [q |-> q, ok |-> TRUE, rids |-> Rids(rs),
                                         batch |-> Rids(batch)]),
                  !.batch   = batch,
                  !.fetched = Len(rs),
                  !.n       = Len(batch),
                  !.i       = 1,
                  !.pc      = IF Len(batch) = 0 THEN "done" ELSE "rows",
                  !.ret     = IF Len(batch) = 0 THEN "nil" ELSE @]

\* processNoPK: SELECT; the rows are decoded one by one inside the row loop
FetchNoPK(x, c) ==
    LET q  == OffsetQuery(x, c)
        rs == SelectOffset(x.table, c.BatchSize, x.offset)
    IN  [x EXCEPT !.nsel    = @ + 1,
                  !.selLog  = Append(@, [q |-> q, ok |-> TRUE, rids |-> Rids(rs),
                                         batch |-> Rids(rs)]),
                  !.batch   = rs,
                  !.fetched = Len(rs),
                  !.n       = 0,
                  !.i       = 1,
                  !.pc      = IF Len(rs) = 0 THEN "done" ELSE "rows",
                  !.ret     = IF Len(rs) = 0 THEN "nil" ELSE @]

\* db.ExecContext(ctx, sqlText, args...): fail = the call returns an error
\* (timeout, lost connection); a malformed statement errs at the server
Exec(x, built, r, fail) ==
    [x EXCEPT !.table   = IF fail THEN @ ELSE ExecUpdate(@, built.sql, built.args),
              !.faults  = IF fail THEN @ + 1 ELSE @,
              !.execLog = Append(@, [sql |-> built.sql, args |-> built.args,
                                     rid |-> r.rid, vals |-> r.vals, sel |-> x.nsel,
                                     err |-> fail \/ ~WellFormed(built.sql, built.args)])]

\* log.Printf("[DRYRUN] %s -- args=%v", sqlText, args)
DryRunLog(x, built, r) ==
    [x EXCEPT !.dryLog = Append(@, [sql |-> built.sql, args |-> built.args,
                                    rid |-> r.rid, vals |-> r.vals, sel |-> x.nsel])]

Visit(x, r) == [x EXCEPT !.visits = Append(@, [sel |-> x.nsel, rid |-> r.rid])]

\* next iteration of the row loop, or leave it after the last row
NextRow(x) ==
    [x EXCEPT !.i  = @ + 1,
              !.pc = IF x.i >= Len(x.batch) THEN "advance" ELSE "rows"]

\* mutant of ShouldExec: the dry-run flag is not consulted
ShouldExecIgnoringDryRun(c, changed) == DOMAIN changed # {}

\* the live-mode guard of part_000: len(changed) > 0 && !cfg.DryRun
ShouldExec(c, changed) == DOMAIN changed # {} /\ ~c.DryRun

\* mutant of AfterExec: an UPDATE error ends the scan with that error
AfterExecFatal(x) ==
    IF x.execLog[Len(x.execLog)].err
    THEN [x EXCEPT !.pc = "done", !.ret = "err"]
    ELSE NextRow(x)

\* after ExecContext: an error is logged, the loop goes on either way
AfterExec(x) == NextRow(x)

\* processWithPK of part_000, one iteration of `for _, r := range batch`
RowPK(x, c, fail) ==
    LET r       == x.batch[x.i]
        changed == ChangedPK(c, r.vals)
    IN  IF ShouldExec(c, changed)
        THEN AfterExec(Exec(Visit(x, r), BuildUpdatePK(c, r.vals, changed), r, fail))
        ELSE NextRow(Visit(x, r))

\* processWithPK of mysql.go, one iteration of `for _, r := range batch`
RowPKPlain(x, c, fail) ==
    LET r       == x.batch[x.i]
        changed == ChangedPK(c, r.vals)
        built   == BuildUpdatePK(c, r.vals, changed)
    IN  IF DOMAIN changed = {} THEN NextRow(Visit(x, r))
        ELSE IF c.DryRun THEN NextRow(DryRunLog(Visit(x, r), built, r))
        ELSE AfterExec(Exec(Visit(x, r), built, r, fail))

\* n++ at the end of the loop body
CountRow(x) == [x EXCEPT !.n = @ + 1]

\* processNoPK of part_000, one iteration of `for rows.Next()`;
\* bad = rows.Scan fails on this row
RowNoPK(x, c, bad, fail) ==
    LET r       == x.batch[x.i]
        changed == ChangedNoPK(c, AllCols, r.vals)
    IN  IF bad THEN NextRow([x EXCEPT !.faults = @ + 1])
        ELSE IF ShouldExec(c, changed)
        THEN CountRow(AfterExec(Exec(Visit(x, r),
                 BuildUpdateNoPK(c, AllCols, r.vals, changed), r, fail)))
        ELSE CountRow(NextRow(Visit(x, r)))

\* processNoPK of mysql.go, one iteration of `for rows.Next()`:
\* `continue` on an unchanged row skips count++
RowNoPKPlain(x, c, bad, fail) ==
    LET r       == x.batch[x.i]
        changed == ChangedNoPK(c, AllCols, r.vals)
        built   == BuildUpdateNoPKPlain(c, AllCols, r.vals, changed)
    IN  IF bad THEN NextRow([x EXCEPT !.faults = @ + 1])
        ELSE IF DOMAIN changed = {} THEN NextRow(Visit(x, r))
        ELSE IF c.DryRun THEN CountRow(NextRow(DryRunLog(Visit(x, r), built, r)))
        ELSE CountRow(AfterExec(Exec(Visit(x, r), built, r, fail)))

\* mutant of LastKeyOf: the key of the first row of the batch
FirstKeyOf(batch, pk) == KeyOf(batch[1].vals, pk)

\* the key tuple the cursor takes after a batch
LastKeyOf(batch, pk) == KeyOf(batch[Len(batch)].vals, pk)

\* processWithPK: lastKey = pk of the last row of the batch
AdvancePK(x, c) ==
    [x EXCEPT !.lastKey = LastKeyOf(x.batch, c.PK),
              !.pc      = "select"]

\* processNoPK: return nil when n == 0, else offset += n
AdvanceNoPK(x) ==
    IF x.n = 0
    THEN [x EXCEPT !.pc = "done", !.ret = "nil"]
    ELSE [x EXCEPT !.offset = @ + x.n, !.pc = "select"]

-----------------------------------------------------------------------------
(* Inputs: configurations and table contents *)

MkRow(id, k2, a, b) == ("id" :> id) @@ ("k2" :> k2) @@ ("a" :> a) @@ ("b" :> b)

\* a row whose key is NULL and whose column a converts; a row with a
\* partly NULL composite key, an empty a and a b that converts; a row that
\* needs no change (ASCII text, text already in the target variant)
RowTemplates ==
    { MkRow(NullNS,  NullNS,  NS("jianti"), NullNS),
      MkRow(NS("1"), NullNS,  NS(""),       NS("jianti")),
      MkRow(NS("2"), NS("1"), NS("abc"),    NS("fanti")) }

Tables == UNION {[1..n -> RowTemplates] : n \in 0..MaxRows}

\* PK / IdentifyBy combinations: single key, composite key, whole-row,
\* identify-by, identify-by naming a column the table does not have
Addressing ==
    { [PK |-> <<"id">>,       IdentifyBy |-> <<>>],
      [PK |-> <<"id", "k2">>, IdentifyBy |-> <<>>],
      [PK |-> <<>>,           IdentifyBy |-> <<>>],
      [PK |-> <<>>,           IdentifyBy |-> <<"id">>],
      [PK |-> <<>>,           IdentifyBy |-> <<"uuid">>] }

Configs ==
    { [Engine     |-> e,
       PK         |-> ad.PK,
       IdentifyBy |-> ad.IdentifyBy,
       Columns    |-> <<"a", "b">>,
       To         |-> "s2twp",
       BatchSize  |-> bs,
       DryRun     |-> dr] :
      e \in {"progress", "plain"}, ad \in Addressing,
      bs \in {1, MaxBatch}, dr \in BOOLEAN }

Keyset(c) == Len(c.PK) > 0

-----------------------------------------------------------------------------
(* One table scan *)

Init ==
    /\ cfg \in Configs
    /\ \E t \in Tables : w = NewScan(t, cfg)
    /\ w2 = w
    /\ conv = NewPool
    /\ run = NoDriver

\* the SELECT the loop is about to send
CurrentQuery(x, c) == IF Keyset(c) THEN KeysetQuery(x, c) ELSE OffsetQuery(x, c)

\* the row at x.i, once decoded, gets an UPDATE sent to the server
IssuesUpdate(x, c) ==
    /\ x.pc = "rows"
    /\ ~c.DryRun
    /\ DOMAIN (IF Keyset(c) THEN ChangedPK(c, x.batch[x.i].vals)
               ELSE ChangedNoPK(c, AllCols, x.batch[x.i].vals)) # {}

\* db.Query returns an error
QueryError ==
    /\ w.pc = "select"
    /\ w.nsel < MaxSelects
    /\ w.faults < MaxFaults
    /\ w' = QueryFailed(w, CurrentQuery(w, cfg))
    /\ UNCHANGED <<cfg, w2, conv, run>>

\* db.Query succeeds
FetchBatch ==
    /\ w.pc = "select"
    /\ w.nsel < MaxSelects
    /\ IF Keyset(cfg)
       THEN \E bad \in SUBSET (1..Len(FetchPK(w, cfg, {}).batch)) :
               /\ Cardinality(bad) <= MaxFaults - w.faults
               /\ \A k \in bad : k <= Len(FetchPK(w, cfg, {}).batch)
               /\ w' = FetchPK(w, cfg, bad)
       ELSE w' = FetchNoPK(w, cfg)
    /\ UNCHANGED <<cfg, w2, conv, run>>

\* one iteration of the row loop
RowStep(x, c, bad, fail) ==
    IF Keyset(c)
    THEN IF c.Engine = "progress" THEN RowPK(x, c, fail) ELSE RowPKPlain(x, c, fail)
    ELSE IF c.Engine = "progress" THEN RowNoPK(x, c, bad, fail)
         ELSE RowNoPKPlain(x, c, bad, fail)

ProcessRow ==
    /\ w.pc = "rows"
    /\ \E bad \in BOOLEAN, fail \in BOOLEAN :
          /\ bad => ~Keyset(cfg) /\ ~fail /\ w.faults < MaxFaults
          /\ fail => IssuesUpdate(w, cfg) /\ w.faults < MaxFaults
          /\ w' = RowStep(w, cfg, bad, fail)
    /\ UNCHANGED <<cfg, w2, conv, run>>

AdvanceStep(x, c) == IF Keyset(c) THEN AdvancePK(x, c) ELSE AdvanceNoPK(x)

\* after the row loop: move the cursor / offset, or return
AdvanceCursor ==
    /\ w.pc = "advance"
    /\ w' = AdvanceStep(w, cfg)
    /\ UNCHANGED <<cfg, w2, conv, run>>

Next == QueryError \/ FetchBatch \/ ProcessRow \/ AdvanceCursor

Spec == Init /\ [][Next]_vars

-----------------------------------------------------------------------------
(* Properties of one table scan (specification Spec) *)

\* the successful SELECTs, in order
OkSels(x) == SelectSeq(x.selLog, LAMBDA e : e.ok)

\* the key tuple of the row with storage position rid
KeyAt(x, c, rid) == KeyOf(x.table[rid], c.PK)

\* the changed map the configured mode computes for a fetched row
ChangedOf(c, vals) ==
    IF Keyset(c) THEN ChangedPK(c, vals) ELSE ChangedNoPK(c, AllCols, vals)

\* C1: keyset monotonicity. In keyset mode over a static table, the key of
\* the last row of a batch is strictly less, in ORDER BY order, than every
\* key of the next batch, and no key tuple is returned in two different
\* batches; claimed for every table content, NULL key columns included.
C1_KeysetMonotonicity ==
    Keyset(cfg) =>
        LET B == OkSels(w)
        IN  /\ \A i \in 1..(Len(B) - 1) :
                   B[i].batch # <<>> =>
                       \A k \in 1..Len(B[i+1].batch) :
                           LexLess(KeyAt(w, cfg, B[i].batch[Len(B[i].batch)]),
                                   KeyAt(w, cfg, B[i+1].batch[k]))
            /\ \A i \in 1..Len(B) : \A j \in 1..Len(B) :
                   i < j =>
                       \A k \in 1..Len(B[i].batch) : \A l \in 1..Len(B[j].batch) :
                           KeyAt(w, cfg, B[i].batch[k]) # KeyAt(w, cfg, B[j].batch[l])

\* the number of successful SELECTs that returned the row rid
TimesFetched(x, rid) ==
    Cardinality({p \in {<<i, k>> : i \in 1..Len(x.selLog), k \in 1..MaxRows} :
                    /\ p[2] <= Len(x.selLog[p[1]].rids)
                    /\ x.selLog[p[1]].rids[p[2]] = rid})

\* C2: offset completeness. The offset scanner of part_000, run to
\* completion over a table nobody else modifies, visits every row exactly
\* once: none is skipped, none is fetched in two batches.
C2_OffsetCompleteness ==
    (~Keyset(cfg) /\ cfg.Engine = "progress" /\ w.pc = "done") =>
        \A rid \in 1..Len(w.table) : TimesFetched(w, rid) = 1

\* C3: the scan returns only after a batch SELECT that returned zero rows,
\* in keyset and offset mode, whatever happened to the rows of a batch.
C3_DoneOnlyOnEmptyBatch ==
    w.pc = "done" => w.fetched = 0

\* C4: dry-run safety. With cfg.DryRun set no UPDATE is ever passed to
\* the database, in keyset and offset mode, and the table keeps its content
\* (under Spec w2 never moves, so w2.table is the table the scan started on).
C4_DryRunNoUpdate ==
    cfg.DryRun => (w.execLog = <<>> /\ w.table = w2.table)

\* a dry run has finished the row loop over a row whose ChangedSet is not empty
C4_Witness ==
    /\ cfg.DryRun
    /\ w.pc = "done"
    /\ \E k \in 1..Len(w.visits) :
           DOMAIN ChangedOf(cfg, w.table[w.visits[k].rid]) # {}

\* C5: in the engine of part_000 a dry run surfaces, for every row whose
\* ChangedSet is not empty, the UPDATE and arguments a live run would execute.
C5_DryRunSurfacesPlan ==
    (cfg.Engine = "progress" /\ cfg.DryRun) =>
        \A k \in 1..Len(w.visits) :
            DOMAIN ChangedOf(cfg, w.table[w.visits[k].rid]) # {} =>
                \E d \in 1..Len(w.dryLog) :
                    /\ w.dryLog[d].rid = w.visits[k].rid
                    /\ w.dryLog[d].sel = w.visits[k].sel

\* every statement the planner built, executed or printed
Planned(x) ==
    {[sql |-> x.execLog[k].sql, args |-> x.execLog[k].args, vals |-> x.execLog[k].vals] :
        k \in 1..Len(x.execLog)}
    \cup
    {[sql |-> x.dryLog[k].sql, args |-> x.dryLog[k].args, vals |-> x.dryLog[k].vals] :
        k \in 1..Len(x.dryLog)}

\* C7: NULL-safe addressing. In every UPDATE the planner builds (primary
\* key, identify-by, whole-row) a WHERE column that is NULL in the fetched
\* row gives `col IS NULL` and binds nothing, a non-NULL one gives
\* `col = ?` and binds exactly one argument.
C7_NullSafeAddressing ==
    \A e \in Planned(w) :
        /\ \A i \in 1..Len(e.sql.where) :
               (e.sql.where[i].op = "isnull") <=> ~e.vals[e.sql.where[i].col].Valid
        /\ Len(e.args) = Len(e.sql.set) + NumEq(e.sql.where)
        /\ Len(e.args) - Len(e.sql.set)
              = Cardinality({i \in 1..Len(e.sql.where) : e.vals[e.sql.where[i].col].Valid})

\* an executed UPDATE whose WHERE mixes `= ?` and IS NULL
C7_Witness ==
    \E k \in 1..Len(w.execLog) :
        \E i, j \in 1..Len(w.execLog[k].sql.where) :
            /\ w.execLog[k].sql.where[i].op = "eq"
            /\ w.execLog[k].sql.where[j].op = "isnull"

\* C8: a failed UPDATE is not fatal. The step in which ExecContext errs
\* moves on to the next row of the batch, the scan never returns an error,
\* and a row visit gets at most one UPDATE attempt.
C8_UpdateFailureNotFatal ==
    [][ /\ Len(w'.execLog) <= Len(w.execLog) + 1
        /\ (Len(w'.execLog) = Len(w.execLog) + 1 /\ w'.execLog[Len(w'.execLog)].err)
              => /\ w'.i = w.i + 1
                 /\ w'.pc \in {"rows", "advance"}
                 /\ w'.ret = "none"
                 /\ w'.batch = w.batch
        /\ \A p \in 1..Len(w'.execLog) : \A q \in 1..Len(w'.execLog) :
               (p < q) => <<w'.execLog[p].sel, w'.execLog[p].rid>>
                             # <<w'.execLog[q].sel, w'.execLog[q].rid>>
        /\ w'.ret \in {"none", "nil"}
      ]_vars

\* an UPDATE failed, a later row was still visited, and the scan returned nil
C8_Witness ==
    /\ w.pc = "done"
    /\ w.ret = "nil"
    /\ \E k \in 1..Len(w.execLog) :
           /\ w.execLog[k].err
           /\ \E v \in 2..Len(w.visits) :
                  /\ w.visits[v].sel >= w.execLog[k].sel
                  /\ w.visits[v].rid # w.execLog[k].rid
                  /\ w.visits[v - 1].rid = w.execLog[k].rid

\* C9: a failed batch SELECT leaves the scan position unchanged. Cursor
\* and offset keep their value, no row is processed, no UPDATE is issued,
\* the next SELECT is the same query, and the scan does not end.
C9_QueryErrorKeepsPosition ==
    [][ /\ (Len(w'.selLog) = Len(w.selLog) + 1 /\ ~w'.selLog[Len(w'.selLog)].ok)
              => /\ w'.lastKey = w.lastKey
                 /\ w'.offset = w.offset
                 /\ w'.pc = "select"
                 /\ w'.ret = "none"
                 /\ w'.visits = w.visits
                 /\ w'.execLog = w.execLog
                 /\ w'.dryLog = w.dryLog
                 /\ w'.table = w.table
                 /\ CurrentQuery(w', cfg) = w'.selLog[Len(w'.selLog)].q
        /\ \A k \in 1..(Len(w'.selLog) - 1) :
               ~w'.selLog[k].ok => w'.selLog[k + 1].q = w'.selLog[k].q
      ]_vars

\* a SELECT failed at a position past the start and was issued again
C9_Witness ==
    \E k \in 2..(Len(w.selLog) - 1) :
        /\ ~w.selLog[k].ok
        /\ w.selLog[k].q.where \/ w.selLog[k].q.offset > 0
        /\ w.selLog[k + 1].ok
        /\ w.selLog[k + 1].rids # <<>>

\* C10: in keyset mode, after every non-empty batch the cursor is the key
\* tuple of the last row of that batch, whether the rows were updated,
\* unchanged, processed in dry-run or failed their UPDATE.
C10_CursorIsLastRowKey ==
    (Keyset(cfg) /\ w.pc = "select" /\ OkSels(w) # <<>>) =>
        LET last == OkSels(w)[Len(OkSels(w))].batch
        IN  /\ last # <<>>
            /\ w.lastKey = KeyAt(w, cfg, last[Len(last)])

\* a batch of two rows with different keys ended, and the UPDATE of its
\* last row had failed
C10_Witness ==
    /\ Keyset(cfg)
    /\ w.pc = "select"
    /\ OkSels(w) # <<>>
    /\ LET last == OkSels(w)[Len(OkSels(w))].batch
       IN  /\ Len(last) = 2
           /\ KeyAt(w, cfg, last[1]) # KeyAt(w, cfg, last[2])
           /\ \E k \in 1..Len(w.execLog) :
                  w.execLog[k].err /\ w.execLog[k].rid = last[2]

-----------------------------------------------------------------------------
(* A dry run and a live run of the engine of mysql.go over the same table  *)
(* and configuration (specification SpecPair): w is the dry run, w2 the    *)
(* live run on its own copy of the table. Both take their next step        *)
(* together; a query error hits both runs at the same SELECT.              *)

LiveCfg(c) == [c EXCEPT !.DryRun = FALSE]
DryCfg(c) == [c EXCEPT !.DryRun = TRUE]

InitPair ==
    /\ cfg \in {c \in Configs : c.Engine = "plain" /\ c.DryRun}
    /\ \E t \in Tables : w = NewScan(t, cfg)
    /\ w2 = w
    /\ conv = NewPool
    /\ run = NoDriver

\* the next step of a scan when the database answers
StepScan(x, c, fail) ==
    IF x.pc = "select" /\ x.nsel < MaxSelects
    THEN IF Keyset(c) THEN FetchPK(x, c, {}) ELSE FetchNoPK(x, c)
    ELSE IF x.pc = "rows" THEN RowStep(x, c, FALSE, fail)
    ELSE IF x.pc = "advance" THEN AdvanceStep(x, c)
    ELSE x

PairStep ==
    /\ \E fail \in BOOLEAN :
          /\ fail => IssuesUpdate(w2, LiveCfg(cfg)) /\ w2.faults < MaxFaults
          /\ w' = StepScan(w, DryCfg(cfg), FALSE)
          /\ w2' = StepScan(w2, LiveCfg(cfg), fail)
    /\ (w' # w \/ w2' # w2)
    /\ UNCHANGED <<cfg, conv, run>>

PairQueryError ==
    /\ w.pc = "select" /\ w2.pc = "select"
    /\ w.nsel < MaxSelects /\ w2.nsel < MaxSelects
    /\ w.faults < MaxFaults /\ w2.faults < MaxFaults
    /\ w' = QueryFailed(w, CurrentQuery(w, cfg))
    /\ w2' = QueryFailed(w2, CurrentQuery(w2, cfg))
    /\ UNCHANGED <<cfg, conv, run>>

NextPair == PairStep \/ PairQueryError

SpecPair == InitPair /\ [][NextPair]_vars

\* the (statement text, argument list) pairs of a log
Pairs(log) == [k \in 1..Len(log) |-> [sql |-> log[k].sql, args |-> log[k].args]]

\* C6: dry-run equivalence in the engine of mysql.go. For the same table
\* and configuration the pairs (statement, arguments) a dry run logs are,
\* pair by pair, the pairs a live run passes to the database: after the
\* same number of steps of both runs the two sequences are equal.
C6_DryRunEquivalence ==
    Pairs(w.dryLog) = Pairs(w2.execLog)

-----------------------------------------------------------------------------
(* The conversion oracle on its own (specification SpecConv): calls of     *)
(* ConvertIfNeeded with any variant and text, and the Row Transformer on   *)
(* rows whose transform columns hold any text.                             *)

\* the variants a run may be configured with; "zz" is one opencc.New rejects
ConvVariants == {"s2twp", "t2s", "zz"}

\* the texts a cell may hold
Texts == {"", "1", "abc", "cafe", "jianti", "fanti"}

CellValues == {NullNS} \cup {NS(t) : t \in Texts}

\* the converter calls the Row Transformer makes for one row, column by column
RECURSIVE TransformCalls(_, _, _)
TransformCalls(to, cols, data) ==
    IF cols = <<>> THEN <<>>
    ELSE (IF data[Head(cols)].Valid /\ data[Head(cols)].String # ""
          THEN ConvertIfNeeded(to, data[Head(cols)].String).calls
          ELSE <<>>)
         \o TransformCalls(to, Tail(cols), data)

\* ccPool after a sequence of converter calls for variant to
PoolAfter(pool, to, calls) ==
    IF \E i \in 1..Len(calls) : calls[i] = "GetConverter"
    THEN GetConverter(pool, to)
    ELSE pool

InitConv ==
    /\ cfg \in {[c EXCEPT !.To = to] :
                   c \in {d \in Configs : ~d.DryRun /\ d.BatchSize = 1},
                   to \in ConvVariants}
    /\ w = NewScan(<<>>, cfg)
    /\ w2 = w
    /\ conv = NewPool
    /\ run = NoDriver

\* ConvertIfNeeded(to, in) is called
ConvertCall ==
    /\ \E to \in ConvVariants, in \in Texts :
          conv' = [pool |-> PoolAfter(conv.pool, to, ConvertIfNeeded(to, in).calls),
                   last |-> [kind  |-> "call",
                             to    |-> to,
                             in    |-> in,
                             res   |-> ConvertIfNeeded(to, in),
                             pool0 |-> conv.pool]]
    /\ UNCHANGED <<cfg, w, w2, run>>

\* the Row Transformer of the configured mode runs on one fetched row
TransformRow ==
    /\ \E a \in CellValues, b \in CellValues :
          LET data == MkRow(NS("1"), NullNS, a, b)
          IN  conv' = [pool |-> PoolAfter(conv.pool, cfg.To,
                                          TransformCalls(cfg.To, cfg.Columns, data)),
                       last |-> [kind    |-> "row",
                                 data    |-> data,
                                 changed |-> ChangedOf(cfg, data),
                                 calls   |-> TransformCalls(cfg.To, cfg.Columns, data),
                                 pool0   |-> conv.pool]]
    /\ UNCHANGED <<cfg, w, w2, run>>

NextConv == ConvertCall \/ TransformRow

SpecConv == InitConv /\ [][NextConv]_vars

\* a text the oracle has nothing to do on: empty, ASCII only, or no Han rune
Skippable(in) ==
    \/ in = ""
    \/ \A i \in 1..Len(Runes(in)) : Runes(in)[i] <= 127
    \/ \A i \in 1..Len(Runes(in)) : ~IsHan(Runes(in)[i])

\* C11: short-circuit on non-convertible text. For an input that is empty,
\* ASCII only or without a Han ideograph, ConvertIfNeeded returns the input
\* unchanged with need = false and no error, and neither obtains nor invokes
\* the converter (ccPool stays as it was); a column holding such a value is
\* never in the ChangedSet of its row.
C11_ShortCircuit ==
    /\ (conv.last.kind = "call" /\ Skippable(conv.last.in)) =>
           /\ conv.last.res.out = conv.last.in
           /\ ~conv.last.res.need
           /\ ~conv.last.res.err
           /\ conv.last.res.calls = <<>>
           /\ conv.pool = conv.last.pool0
    /\ conv.last.kind = "row" =>
           /\ \A col \in Range(cfg.Columns) :
                  (~conv.last.data[col].Valid \/ Skippable(conv.last.data[col].String))
                      => col \notin DOMAIN conv.last.changed
           /\ (\A col \in Range(cfg.Columns) :
                  ~conv.last.data[col].Valid \/ Skippable(conv.last.data[col].String))
                      => (conv.last.calls = <<>> /\ conv.pool = conv.last.pool0)

\* a row with a non-ASCII text without Han ideographs in column a and a
\* text that converts in column b: b is in the ChangedSet
C11_Witness ==
    /\ conv.last.kind = "row"
    /\ conv.last.data["a"] = NS("cafe")
    /\ conv.last.data["b"] = NS("jianti")
    /\ "b" \in DOMAIN conv.last.changed
    /\ conv.last.calls = <<"GetConverter", "Convert">>

-----------------------------------------------------------------------------
(* The command run twice on the same table with the same configuration     *)
(* (specification SpecTwice): w is the first, live pass; once it has       *)
(* returned, w2 is the second pass over the table the first one left.      *)
(* The database answers every query and no row fails to decode.            *)

\* the command is started: pass 1 is about to scan
FirstRun == [kind |-> "passes", pass |-> 1]
SecondRun == [kind |-> "passes", pass |-> 2]

InitTwice ==
    /\ cfg \in {c \in Configs : ~c.DryRun}
    /\ \E t \in Tables : w = NewScan(t, cfg)
    /\ w2 = w
    /\ conv = NewPool
    /\ run = FirstRun

\* no statement passed to ExecContext returned an error
AllUpdatesOk(x) == \A k \in 1..Len(x.execLog) : ~x.execLog[k].err

FirstPass ==
    /\ run = FirstRun
    /\ w.pc # "done"
    /\ w' = StepScan(w, cfg, FALSE)
    /\ w' # w
    /\ UNCHANGED <<cfg, w2, conv, run>>

\* the first pass returned nil and every UPDATE succeeded: run again
StartSecondPass ==
    /\ run = FirstRun
    /\ w.pc = "done"
    /\ w.ret = "nil"
    /\ AllUpdatesOk(w)
    /\ w2' = NewScan(w.table, cfg)
    /\ run' = SecondRun
    /\ UNCHANGED <<cfg, w, conv>>

SecondPass ==
    /\ run = SecondRun
    /\ w2' = StepScan(w2, cfg, FALSE)
    /\ w2' # w2
    /\ UNCHANGED <<cfg, w, conv, run>>

NextTwice == FirstPass \/ StartSecondPass \/ SecondPass

SpecTwice == InitTwice /\ [][NextTwice]_vars

\* C12: fixed point. After a live pass has completed with every UPDATE
\* succeeding, a second pass with the same configuration computes an empty
\* ChangedSet for every row it visits and issues no UPDATE.
C12_FixedPoint ==
    run = SecondRun =>
        /\ w2.execLog = <<>>
        /\ \A k \in 1..Len(w2.visits) :
               DOMAIN ChangedOf(cfg, w2.table[w2.visits[k].rid]) = {}

-----------------------------------------------------------------------------
(* The keyset walk-through of the specification (SpecScenario): table t    *)
(* with key id and rows (1, text that converts), (2, ""), (3, "abc"), in   *)
(* any storage order, batch size 2, live mode, variant s2t. Queries and    *)
(* the UPDATE may fail; every row decodes.                                 *)

ScenarioRows ==
    { MkRow(NS("1"), NullNS, NS("jianti"), NullNS),
      MkRow(NS("2"), NullNS, NS(""),       NullNS),
      MkRow(NS("3"), NullNS, NS("abc"),    NullNS) }

\* the three rows in every storage order
ScenarioTables == {t \in [1..3 -> ScenarioRows] : Range(t) = ScenarioRows}

ScenarioConfigs ==
    { [Engine     |-> e,
       PK         |-> <<"id">>,
       IdentifyBy |-> <<>>,
       Columns    |-> <<"a">>,
       To         |-> "s2t",
       BatchSize  |-> 2,
       DryRun     |-> FALSE] : e \in {"progress", "plain"} }

InitScenario ==
    /\ cfg \in ScenarioConfigs
    /\ \E t \in ScenarioTables : w = NewScan(t, cfg)
    /\ w2 = w
    /\ conv = NewPool
    /\ run = NoDriver

\* the next step of processWithPK; the UPDATE of the step may fail
ScenarioStep ==
    /\ w.pc # "done"
    /\ \E fail \in BOOLEAN :
          /\ fail => IssuesUpdate(w, cfg) /\ w.faults < MaxFaults
          /\ w' = StepScan(w, cfg, fail)
    /\ w' # w
    /\ UNCHANGED <<cfg, w2, conv, run>>

NextScenario == ScenarioStep \/ QueryError

SpecScenario == InitScenario /\ [][NextScenario]_vars

\* the cursor of a logged SELECT: <<>> when the WHERE clause is omitted
CursorOf(e) == IF e.q.where THEN e.q.args ELSE <<>>

\* the id values of the rows a logged SELECT returned
IdsOf(x, e) == [k \in 1..Len(e.rids) |-> x.table[e.rids[k]]["id"].String]

\* C13: keyset scenario. The run issues exactly three successful SELECTs,
\* with cursor unset, 2, 3 in that order, returning ids (1,2), (3) and no
\* row; it issues exactly one UPDATE, for id = 1, none for ids 2 and 3, and
\* it ends after the third SELECT.
C13_KeysetScenario ==
    LET B    == OkSels(w)
        want == << [cur |-> <<>>,    ids |-> <<"1", "2">>],
                   [cur |-> <<"2">>, ids |-> <<"3">>],
                   [cur |-> <<"3">>, ids |-> <<>>] >>
    IN  /\ Len(B) <= 3
        /\ \A k \in 1..Len(B) :
               /\ CursorOf(B[k]) = want[k].cur
               /\ IdsOf(w, B[k]) = want[k].ids
        /\ Len(w.execLog) <= 1
        /\ \A k \in 1..Len(w.execLog) : w.execLog[k].vals["id"] = NS("1")
        /\ (w.pc = "done") <=> (Len(B) = 3)
        /\ w.pc = "done" => (Len(w.execLog) = 1 /\ w.ret = "nil")

\* the run has ended, after a SELECT that failed once and was issued again
C13_Witness ==
    /\ w.pc = "done"
    /\ Len(OkSels(w)) = 3
    /\ \E k \in 1..Len(w.selLog) : ~w.selLog[k].ok /\ w.selLog[k].q.where
    /\ \E k \in 1..Len(w.execLog) : ~w.execLog[k].err /\ w.table[w.execLog[k].rid]["a"] = NS("fanti")

-----------------------------------------------------------------------------
(* Offset mode over tables without a key (specification SpecOffset): rows  *)
(* that agree in every column but id, rows that are equal in every column, *)
(* an id that is NULL, an id that holds text. Live runs of both engines,   *)
(* addressed by identify-by or by the whole row; the steps are those of    *)
(* Spec, failures included.                                                *)

OffsetRowTemplates ==
    { MkRow(NS("1"),     NullNS, NS("jianti"), NullNS),
      MkRow(NS("fanti"), NullNS, NS("jianti"), NullNS),
      MkRow(NullNS,      NullNS, NS("jianti"), NullNS) }

OffsetTables == UNION {[1..n -> OffsetRowTemplates] : n \in 0..MaxRows}

OffsetConfigs ==
    {c \in Configs : ~Keyset(c) /\ ~c.DryRun /\ c.IdentifyBy \in {<<>>, <<"id">>}}

InitOffset ==
    /\ cfg \in OffsetConfigs
    /\ \E t \in OffsetTables : w = NewScan(t, cfg)
    /\ w2 = w
    /\ conv = NewPool
    /\ run = NoDriver

SpecOffset == InitOffset /\ [][Next]_vars

\* the rows of the table an UPDATE step changed
ChangedRows(t0, t1) == {j \in 1..Len(t0) : t1[j] # t0[j]}

\* rows u and v differ in an identify-by column
DistinctIdent(c, u, v) == \E i \in 1..Len(c.IdentifyBy) : u[c.IdentifyBy[i]] # v[c.IdentifyBy[i]]

\* rows u and v agree in every column that is not an identify-by column
SameOthers(c, u, v) ==
    \A col \in Range(AllCols) \ Range(c.IdentifyBy) : u[col] = v[col]

\* C14: identify-by isolation. In offset mode with identify_by configured,
\* the UPDATE issued for a row never changes another row that agrees with
\* it in all other columns and differs in the identify-by columns.
IsolatedUpdate ==
    (Len(cfg.IdentifyBy) > 0 /\ Len(w'.execLog) = Len(w.execLog) + 1) =>
        LET e == w'.execLog[Len(w'.execLog)]
        IN  \A j \in ChangedRows(w.table, w'.table) :
                ~(/\ j # e.rid
                  /\ DistinctIdent(cfg, e.vals, w.table[j])
                  /\ SameOthers(cfg, e.vals, w.table[j]))

C14_IdentifyByIsolation == [][IsolatedUpdate]_vars

\* C15: whole-row fallback bound. In offset mode without identify_by the
\* WHERE clause has one predicate per column of the table, each testing the
\* column against the value of the fetched row, the statement ends with
\* LIMIT 1, and one UPDATE changes at most one row.
WholeRowUpdate ==
    (Len(cfg.IdentifyBy) = 0 /\ Len(w'.execLog) = Len(w.execLog) + 1) =>
        LET e == w'.execLog[Len(w'.execLog)]
        IN  /\ e.sql.limit1
            /\ [i \in 1..Len(e.sql.where) |-> e.sql.where[i].col] = AllCols
            /\ \A i \in 1..Len(e.sql.where) :
                   IF e.vals[AllCols[i]].Valid
                   THEN /\ e.sql.where[i].op = "eq"
                        /\ e.args[Len(e.sql.set) + EqPos(e.sql.where, i)]
                              = e.vals[AllCols[i]].String
                   ELSE e.sql.where[i].op = "isnull"
            /\ Cardinality(ChangedRows(w.table, w'.table)) <= 1

C15_WholeRowBound == [][WholeRowUpdate]_vars

-----------------------------------------------------------------------------
(* The JSON config file. A file is a record of what is on disk: form is   *)
(* "json" for a file that can be read and decoded, "unreadable" or         *)
(* "malformed" otherwise; the other fields are the JSON fields as written: *)
(* an absent integer is 0 and an absent string "" after json.Unmarshal;    *)
(* dry_run is "true", "false" or "absent"; tables is the list of entries.  *)

DefaultTo == "s2twp"
DefaultBatchSize == 500
DefaultWorkers == 8
DefaultConnMaxLifetime == "30m"
DefaultTablesParallel == 1

\* LoadMySQLFileConfig: tables_parallel <= 0 becomes 1
LoadedTablesParallel(tp) == IF tp <= 0 THEN DefaultTablesParallel ELSE tp

\* json.Unmarshal into a bool field: an absent field leaves the zero value
UnmarshalBool(v) == v = "true"

\* strings.TrimSpace on the texts a conn_max_lifetime field holds here
TrimSpace(s) == IF s = " " THEN "" ELSE s

\* time.ParseDuration succeeds: a number needs a unit, except 0
ParseDurationOK(s) == s \in {"30m", "1h", "0"}

\* the entries of tables that LoadMySQLFileConfig rejects
BadEntries(ts) == {i \in 1..Len(ts) : ts[i].table = "" \/ Len(ts[i].columns) = 0}

\* the error LoadMySQLFileConfig returns for a file, "none" when it loads
LoadError(f) ==
    IF f.form = "unreadable" THEN "read"
    ELSE IF f.form = "malformed" THEN "json parse"
    ELSE IF f.dsn = "" THEN "dsn"
    ELSE IF Len(f.tables) = 0 THEN "tables"
    ELSE IF BadEntries(f.tables) = {} THEN "none"
    ELSE LET i == CHOOSE k \in BadEntries(f.tables) :
                      \A j \in BadEntries(f.tables) : k <= j
         IN  IF f.tables[i].table = "" THEN "table" ELSE "columns"

\* mutant of LoadMySQLFileConfig: batch_size gets no default
LoadMySQLFileConfigNoBatchDefault(f) ==
    IF LoadError(f) # "none" THEN [err |-> LoadError(f)]
    ELSE
    [err            |-> "none",
     To             |-> IF f.to = "" THEN DefaultTo ELSE f.to,
     BatchSize      |-> f.batch_size,
     Workers        |-> IF f.workers <= 0 THEN DefaultWorkers ELSE f.workers,
     RPS            |-> f.rps,
     DryRun         |-> UnmarshalBool(f.dry_run),
     ConnMaxLifetime |-> IF TrimSpace(f.conn_max_lifetime) = ""
                         THEN DefaultConnMaxLifetime ELSE f.conn_max_lifetime,
     TablesParallel |-> LoadedTablesParallel(f.tables_parallel),
     Tables         |-> f.tables]

\* LoadMySQLFileConfig: read, decode, validate, defaults; the result is
\* the loaded MySQLFileConfig with err "none", or the error alone
LoadMySQLFileConfig(f) ==
    IF LoadError(f) # "none" THEN [err |-> LoadError(f)]
    ELSE
    [err            |-> "none",
     To             |-> IF f.to = "" THEN DefaultTo ELSE f.to,
     BatchSize      |-> IF f.batch_size <= 0 THEN DefaultBatchSize ELSE f.batch_size,
     Workers        |-> IF f.workers <= 0 THEN DefaultWorkers ELSE f.workers,
     RPS            |-> f.rps,
     DryRun         |-> UnmarshalBool(f.dry_run),
     ConnMaxLifetime |-> IF TrimSpace(f.conn_max_lifetime) = ""
                         THEN DefaultConnMaxLifetime ELSE f.conn_max_lifetime,
     TablesParallel |-> LoadedTablesParallel(f.tables_parallel),
     Tables         |-> f.tables]

\* a config file that decodes and names a dsn
ConfigFile(bs, wk, rps, dr, tp, ts) ==
    [form |-> "json", dsn |-> "dsn", to |-> "", batch_size |-> bs,
     workers |-> wk, rps |-> rps, dry_run |-> dr, conn_max_lifetime |-> "",
     tables_parallel |-> tp, tables |-> ts]

\* RunMySQLFromFileConfig: the MySQLConfig of one table entry
TableConfig(fc, t) ==
    [Engine     |-> "progress",
     PK         |-> t.pk,
     IdentifyBy |-> t.identify_by,
     Columns    |-> t.columns,
     To         |-> fc.To,
     BatchSize  |-> IF t.batch_size > 0 THEN t.batch_size ELSE fc.BatchSize,
     Workers    |-> IF t.workers > 0 THEN t.workers ELSE fc.Workers,
     RPS        |-> IF t.rps > 0 THEN t.rps ELSE fc.RPS,
     DryRun     |-> fc.DryRun]

TableEntry(ad, bs, wk, rps) ==
    [table |-> "t", pk |-> ad.PK, identify_by |-> ad.IdentifyBy,
     columns |-> <<"a", "b">>, batch_size |-> bs, workers |-> wk, rps |-> rps]

-----------------------------------------------------------------------------
(* RunMySQLFromFileConfig (specification SpecMulti): the main goroutine    *)
(* walks the table entries, takes a slot of the semaphore and starts one   *)
(* goroutine per table; each goroutine runs the table scan, reports an     *)
(* error on errCh, gives the slot back and leaves the wait group.          *)
(* run is a record:                                                        *)
(*   file    the config file as written                                    *)
(*   fc      the loaded MySQLFileConfig, or the error of loading           *)
(*   cap     capacity of sem (fileCfg.TablesParallel after loading)        *)
(*   mainpc  "load", "start", "loop", "wgwait", "pwait", "drain",          *)
(*           "returned"; "exit1" when main.go exits on a load error        *)
(*   next    index of the table entry the for loop is at                   *)
(*   sem, wg slots of sem in use, counter of the wait group                *)
(*   g       per table: "idle", "scan", "report", "release", "wgdone",     *)
(*           "exit"                                                        *)
(*   res     per table: what RunMySQLWithProgress returned                 *)
(*   bar     per table: "none", "open" or "complete" progress bar          *)
(*   errCh   the buffered channel; reported: every error ever sent on it   *)
(*   ret     0 for nil, the table whose error was returned, or             *)
(*           LifetimeError for the conn_max_lifetime error                 *)

LifetimeError == -1

\* no config loaded yet
NotLoaded == [loaded |-> FALSE]

NewRunner(f) ==
    [kind     |-> "multi",
     file     |-> f,
     fc       |-> NotLoaded,
     cap      |-> 0,
     mainpc   |-> "load",
     next     |-> 1,
     sem      |-> 0,
     wg       |-> 0,
     g        |-> [i \in 1..Len(f.tables) |-> "idle"],
     res      |-> [i \in 1..Len(f.tables) |-> "none"],
     bar      |-> [i \in 1..Len(f.tables) |-> "none"],
     errCh    |-> <<>>,
     reported |-> <<>>,
     ret      |-> 0]

\* config files of n tables: good ones, and ones that fail to load or
\* whose conn_max_lifetime does not parse
MultiFiles ==
    LET good == { ConfigFile(0, 0, 0, "true", tp,
                             [i \in 1..n |-> TableEntry([PK |-> <<"id">>, IdentifyBy |-> <<>>], 0, 0, 0)]) :
                  tp \in -1..MaxParallel, n \in 0..MaxTables }
    IN  good
        \cup {[f EXCEPT !.conn_max_lifetime = l] :
                 f \in {g \in good : g.tables_parallel = 1}, l \in {" ", "30", "abc"}}
        \cup {[f EXCEPT !.dsn = ""] : f \in {g \in good : g.tables_parallel = 1}}

InitMulti ==
    /\ cfg \in {c \in Configs : /\ c.Engine = "progress" /\ c.BatchSize = 1
                               /\ ~c.DryRun /\ c.PK = <<"id">>}
    /\ w = NewScan(<<>>, cfg)
    /\ w2 = w
    /\ conv = NewPool
    /\ \E f \in MultiFiles : run = NewRunner(f)

\* main.go: cfg, err := LoadMySQLFileConfig(p); an error ends the process
\* with status 1, RunMySQLFromFileConfig is not called
LoadFile ==
    /\ run.mainpc = "load"
    /\ LET fc == LoadMySQLFileConfig(run.file)
       IN  run' = [run EXCEPT !.fc     = [loaded |-> TRUE, cfg |-> fc],
                              !.mainpc = IF fc.err = "none" THEN "start" ELSE "exit1"]
    /\ UNCHANGED <<cfg, w, w2, conv>>

\* RunMySQLFromFileConfig up to the for loop: time.ParseDuration of
\* conn_max_lifetime, whose error is returned at once; else sem is made
StartRun ==
    /\ run.mainpc = "start"
    /\ run' = IF ParseDurationOK(run.fc.cfg.ConnMaxLifetime)
              THEN [run EXCEPT !.cap = run.fc.cfg.TablesParallel, !.mainpc = "loop"]
              ELSE [run EXCEPT !.mainpc = "returned", !.ret = LifetimeError]
    /\ UNCHANGED <<cfg, w, w2, conv>>

\* mutant of CanAcquire: the send on sem never blocks
CanAcquireAlways(r) == TRUE

\* sem <- struct{}{} can proceed: the channel buffer has room
CanAcquire(r) == r.sem < r.cap

\* one iteration of `for _, t := range fileCfg.Tables`
SpawnTable ==
    /\ run.mainpc = "loop"
    /\ run.next <= Len(run.file.tables)
    /\ CanAcquire(run)
    /\ run' = [run EXCEPT !.sem  = @ + 1,
                          !.wg   = @ + 1,
                          !.g    = [@ EXCEPT ![run.next] = "scan"],
                          !.next = @ + 1]
    /\ UNCHANGED <<cfg, w, w2, conv>>

\* the for loop is over: wg.Wait()
LoopEnd ==
    /\ run.mainpc = "loop"
    /\ run.next > Len(run.file.tables)
    /\ run' = [run EXCEPT !.mainpc = "wgwait"]
    /\ UNCHANGED <<cfg, w, w2, conv>>

\* what RunMySQLWithProgress can return, and the state it leaves its bar in:
\* nil (bar complete), an error before the bar is added (open, ping), an
\* error of processNoPK after the bar was added (schema introspection)
ScanOutcomes ==
    { [res |-> "nil", bar |-> "complete"],
      [res |-> "err", bar |-> "none"],
      [res |-> "err", bar |-> "open"] }

\* goroutine i: RunMySQLWithProgress(cfg, p) returns
ScanReturns ==
    /\ \E i \in 1..Len(run.file.tables), o \in ScanOutcomes :
          /\ run.g[i] = "scan"
          /\ run' = [run EXCEPT !.res = [@ EXCEPT ![i] = o.res],
                                !.bar = [@ EXCEPT ![i] = o.bar],
                                !.g   = [@ EXCEPT ![i] = IF o.res = "err" THEN "report"
                                                         ELSE "release"]]
    /\ UNCHANGED <<cfg, w, w2, conv>>

\* mutant of ErrChCap: room for one error only
ErrChCapOne(n) == 1

\* make(chan error, len(fileCfg.Tables))
ErrChCap(n) == n

\* the send on errCh can proceed
CanReport(r) == Len(r.errCh) < ErrChCap(Len(r.file.tables))

\* goroutine i: errCh <- fmt.Errorf("table %s: %w", ...)
ReportError ==
    /\ \E i \in 1..Len(run.file.tables) :
          /\ run.g[i] = "report"
          /\ CanReport(run)
          /\ run' = [run EXCEPT !.errCh    = Append(@, i),
                                !.reported = Append(@, i),
                                !.g        = [@ EXCEPT ![i] = "release"]]
    /\ UNCHANGED <<cfg, w, w2, conv>>

\* goroutine i: the deferred <-sem
ReleaseSlot ==
    /\ \E i \in 1..Len(run.file.tables) :
          /\ run.g[i] = "release"
          /\ run.sem > 0
          /\ run' = [run EXCEPT !.sem = @ - 1,
                                !.g   = [@ EXCEPT ![i] = "wgdone"]]
    /\ UNCHANGED <<cfg, w, w2, conv>>

\* goroutine i: the deferred wg.Done()
WgDone ==
    /\ \E i \in 1..Len(run.file.tables) :
          /\ run.g[i] = "wgdone"
          /\ run' = [run EXCEPT !.wg = @ - 1,
                                !.g  = [@ EXCEPT ![i] = "exit"]]
    /\ UNCHANGED <<cfg, w, w2, conv>>

\* wg.Wait() returns
WgWait ==
    /\ run.mainpc = "wgwait"
    /\ run.wg = 0
    /\ run' = [run EXCEPT !.mainpc = "pwait"]
    /\ UNCHANGED <<cfg, w, w2, conv>>

\* p.Wait() returns: every bar added to the container is complete
ProgressWait ==
    /\ run.mainpc = "pwait"
    /\ \A i \in 1..Len(run.file.tables) : run.bar[i] # "open"
    /\ run' = [run EXCEPT !.mainpc = "drain"]
    /\ UNCHANGED <<cfg, w, w2, conv>>

\* the error `for e := range errCh { return e }` returns, 0 for nil
FirstError(ch) == IF ch = <<>> THEN 0 ELSE Head(ch)

\* close(errCh); return the first error, if any
ReturnResult ==
    /\ run.mainpc = "drain"
    /\ run' = [run EXCEPT !.mainpc = "returned",
                          !.ret    = FirstError(run.errCh)]
    /\ UNCHANGED <<cfg, w, w2, conv>>

NextMulti ==
    \/ LoadFile \/ StartRun \/ SpawnTable \/ LoopEnd \/ ScanReturns \/ ReportError
    \/ ReleaseSlot \/ WgDone \/ WgWait \/ ProgressWait \/ ReturnResult

SpecMulti == InitMulti /\ [][NextMulti]_vars

\* the table scans that are executing
Scanning == {i \in 1..Len(run.file.tables) : run.g[i] = "scan"}

\* C16: multi-table concurrency bound. The number of table scans executing
\* at the same time never exceeds tables_parallel, taken as 1 when the
\* configured value is <= 0.
C16_ConcurrencyBound ==
    Cardinality(Scanning)
        <= (IF run.file.tables_parallel <= 0 THEN 1 ELSE run.file.tables_parallel)

\* two scans execute at once, which is the configured maximum, while the
\* loop waits for a slot to start the third table
C16_Witness ==
    /\ run.file.tables_parallel = 2
    /\ Cardinality(Scanning) = 2
    /\ run.mainpc = "loop"
    /\ run.next = 3
    /\ run.next <= Len(run.file.tables)

\* the main goroutine has left the for loop
LoopOver == run.mainpc \in {"wgwait", "pwait", "drain", "returned"}

\* C17 as stated: multi-table error reporting. A scan is started for every
\* table, also after an earlier table failed; a goroutine that has an error
\* to report can always send it; the function returns a non-nil error
\* exactly when some table scan returned an error, and it is the first
\* error that was reported.
C17_ErrorReporting ==
    /\ LoopOver => \A i \in 1..Len(run.file.tables) : run.g[i] # "idle"
    /\ \A i \in 1..Len(run.file.tables) : run.g[i] = "report" => CanReport(run)
    /\ run.mainpc = "returned" =>
           /\ (run.ret # 0) <=> (\E i \in 1..Len(run.file.tables) : run.res[i] = "err")
           /\ run.ret # 0 => run.ret = run.reported[1]
           /\ Range(run.reported) = {i \in 1..Len(run.file.tables) : run.res[i] = "err"}

\* RunMySQLFromFileConfig got past the parsing of conn_max_lifetime
PastLifetime == run.mainpc # "returned" \/ run.ret # LifetimeError

\* C17 amended: multi-table error reporting once conn_max_lifetime has
\* parsed. When it does not parse, the function returns that error and no
\* scan is started. Otherwise a scan is started for every table, also after
\* an earlier table failed; a goroutine that has an error to report can
\* always send it; the function returns a non-nil error exactly when some
\* table scan returned an error, and it is the first error reported.
C17_ErrorReportingAfterSetup ==
    /\ ~PastLifetime =>
           /\ ~ParseDurationOK(run.fc.cfg.ConnMaxLifetime)
           /\ \A i \in 1..Len(run.file.tables) : run.g[i] = "idle"
           /\ run.reported = <<>>
    /\ (run.mainpc = "returned" /\ PastLifetime) =>
           ParseDurationOK(run.fc.cfg.ConnMaxLifetime)
    /\ (LoopOver /\ PastLifetime) => \A i \in 1..Len(run.file.tables) : run.g[i] # "idle"
    /\ \A i \in 1..Len(run.file.tables) : run.g[i] = "report" => CanReport(run)
    /\ (run.mainpc = "returned" /\ PastLifetime) =>
           /\ (run.ret # 0) <=> (\E i \in 1..Len(run.file.tables) : run.res[i] = "err")
           /\ run.ret # 0 => run.ret = run.reported[1]
           /\ Range(run.reported) = {i \in 1..Len(run.file.tables) : run.res[i] = "err"}

\* tables 1 and 2 both failed, table 2 reported first and its error was
\* returned; table 3 was started after a failure had been reported
C17_Witness ==
    /\ run.mainpc = "returned"
    /\ Len(run.file.tables) = 3
    /\ run.reported = <<2, 1>>
    /\ run.ret = 2
    /\ run.res[3] = "nil"

-----------------------------------------------------------------------------
(* One run from its entry point (specification SpecSetup): the setup phase *)
(* of RunMySQLWithProgress / RunMySQL, then the scan, then the return to   *)
(* the caller. run is a record:                                            *)
(*   pc     "columns", "open", "ping", "count", "bar", "schema", "scan",   *)
(*          "returned"                                                     *)
(*   ret    "none" while running, then "nil" or "err"                      *)
(*   cause  the step whose failure was returned, "none" otherwise          *)
(*   total  "unset", "known" or "unknown" (row count failed: total = -1) *)
(*   bar    "none", "open" or "complete"                                   *)

NewSetup ==
    [kind  |-> "setup",
     pc    |-> "columns",
     ret   |-> "none",
     cause |-> "none",
     total |-> "unset",
     bar   |-> "none"]

\* return fmt.Errorf(...) from the setup phase
SetupFails(r, cause) == [r EXCEPT !.pc = "returned", !.ret = "err", !.cause = cause]

\* the step after a successful db.Ping()
AfterPing(c) ==
    IF c.Engine = "progress" THEN "count"
    ELSE IF Keyset(c) THEN "scan" ELSE "schema"

\* one step of the setup phase; o is what the database answers:
\* "ok", "err", or "empty" (getAllColumns returns no column)
SetupNext(r, c, o) ==
    CASE r.pc = "columns" ->
             IF Len(c.Columns) = 0 THEN SetupFails(r, "columns")
             ELSE [r EXCEPT !.pc = "open"]
      [] r.pc = "open" ->
             IF o = "err" THEN SetupFails(r, "open") ELSE [r EXCEPT !.pc = "ping"]
      [] r.pc = "ping" ->
             IF o = "err" THEN SetupFails(r, "ping") ELSE [r EXCEPT !.pc = AfterPing(c)]
      [] r.pc = "count" ->
             [r EXCEPT !.total = IF o = "err" THEN "unknown" ELSE "known", !.pc = "bar"]
      [] r.pc = "bar" ->
             [r EXCEPT !.bar = "open", !.pc = IF Keyset(c) THEN "scan" ELSE "schema"]
      [] r.pc = "schema" ->
             IF o = "err" THEN SetupFails(r, "schema")
             ELSE IF o = "empty" THEN SetupFails(r, "nocols")
             ELSE [r EXCEPT !.pc = "scan"]

\* the answers a setup step can get
SetupAnswers(r) ==
    CASE r.pc \in {"open", "ping", "count"} -> {"ok", "err"}
      [] r.pc = "schema"                    -> {"ok", "err", "empty"}
      [] OTHER                              -> {"ok"}

SetupConfigs ==
    {[c EXCEPT !.Columns = cols, !.To = to] :
        c \in {d \in Configs : ~d.DryRun /\ d.IdentifyBy # <<"uuid">>},
        cols \in {<<>>, <<"a", "b">>},
        to \in {"s2twp", "zz"}}

InitSetup ==
    /\ cfg \in SetupConfigs
    /\ \E t \in Tables : w = NewScan(t, cfg)
    /\ w2 = w
    /\ conv = NewPool
    /\ run = NewSetup

SetupStep ==
    /\ run.pc \in {"columns", "open", "ping", "count", "bar", "schema"}
    /\ \E o \in SetupAnswers(run) : run' = SetupNext(run, cfg, o)
    /\ UNCHANGED <<cfg, w, w2, conv>>

\* processWithPK / processNoPK is running
ScanRunning ==
    /\ run.pc = "scan"
    /\ Next

\* the scan returned: its result goes to the caller of RunMySQL
ScanReturned ==
    /\ run.pc = "scan"
    /\ w.pc = "done"
    /\ run' = [run EXCEPT !.pc  = "returned",
                          !.ret = w.ret,
                          !.bar = IF @ = "open" THEN "complete" ELSE @]
    /\ UNCHANGED <<cfg, w, w2, conv>>

NextSetup == SetupStep \/ ScanRunning \/ ScanReturned

SpecSetup == InitSetup /\ [][NextSetup]_vars

\* the failures that end a run
SetupCauses == {"columns", "open", "ping", "schema", "nocols"}

\* C18: setup errors end the run before any scanning. A failure to open or
\* ping the connection, a failed schema introspection and a table without
\* columns are returned at once, with no batch SELECT and no UPDATE ever
\* issued; a run that has issued a SELECT never returns an error, whatever
\* failed in it (query, decode, conversion, update).
C18_SetupErrorsOnly ==
    /\ run.cause # "none" =>
           /\ run.cause \in SetupCauses
           /\ run.pc = "returned"
           /\ run.ret = "err"
    /\ run.ret = "err" =>
           /\ run.cause # "none"
           /\ w.selLog = <<>>
           /\ w.execLog = <<>>
           /\ w.dryLog = <<>>
    /\ run.pc \in {"columns", "open", "ping", "count", "bar", "schema"} => w.nsel = 0
    /\ w.ret \in {"none", "nil"}
    /\ (run.pc = "returned" /\ w.nsel > 0) => run.ret = "nil"

\* schema introspection failed in offset mode, after the connection was
\* opened and pinged and the progress bar added; the run returned the error
C18_Witness ==
    /\ run.pc = "returned"
    /\ run.ret = "err"
    /\ run.cause = "schema"
    /\ run.bar = "open"
    /\ Len(w.table) > 0

-----------------------------------------------------------------------------
(* A config file with one table, loaded and run (specification SpecFile):  *)
(* cfg is the MySQLConfig RunMySQLFromFileConfig builds for the table, the *)
(* steps are those of Spec.                                                *)

ScanFiles ==
    { ConfigFile(bs, 0, 0, dr, 0, <<TableEntry(ad, 0, 0, 0)>>) :
      bs \in {1, MaxBatch}, dr \in {"absent", "true", "false"},
      ad \in {a \in Addressing : a.IdentifyBy # <<"uuid">>} }

FileRun(f) == [kind |-> "file", file |-> f]

InitFile ==
    /\ \E f \in ScanFiles :
          /\ LoadError(f) = "none"
          /\ run = FileRun(f)
          /\ cfg = TableConfig(LoadMySQLFileConfig(f), f.tables[1])
    /\ \E t \in Tables : w = NewScan(t, cfg)
    /\ w2 = w
    /\ conv = NewPool

SpecFile == InitFile /\ [][Next]_vars

\* C19: config-file dry-run default. A config file without the dry_run
\* field is run as a dry run: no UPDATE is executed for its tables and the
\* table keeps its content.
C19_FileDryRunDefault ==
    run.file.dry_run = "absent" => (w.execLog = <<>> /\ w.table = w2.table)

-----------------------------------------------------------------------------
(* The override resolution of a config file (specification SpecOverride):  *)
(* the file is loaded, then the for loop of RunMySQLFromFileConfig builds  *)
(* the MySQLConfig of every table entry. run is a record: file, loaded     *)
(* (the MySQLFileConfig, once loaded), built (the MySQLConfig of the       *)
(* entries the loop has passed).                                           *)

OverrideEntries ==
    { TableEntry([PK |-> <<"id">>, IdentifyBy |-> <<>>], bs, wk, rps) :
      bs \in {-1, 0, 1}, wk \in {0, 5}, rps \in {0, 6} }

\* entries LoadMySQLFileConfig rejects: no table name, no columns
RejectedEntries ==
    { [TableEntry([PK |-> <<"id">>, IdentifyBy |-> <<>>], 1, 0, 0) EXCEPT !.table = ""],
      [TableEntry([PK |-> <<"id">>, IdentifyBy |-> <<>>], 1, 0, 0) EXCEPT !.columns = <<>>] }

OverrideFiles ==
    LET good == { ConfigFile(bs, wk, rps, "true", 0, ts) :
                    bs \in {-1, 0, 2}, wk \in {0, 3}, rps \in {-1, 0, 4},
                    ts \in UNION {[1..n -> OverrideEntries] : n \in 1..2} }
        one  == ConfigFile(0, 0, 0, "true", 0,
                           <<TableEntry([PK |-> <<"id">>, IdentifyBy |-> <<>>], 1, 0, 0)>>)
    IN  good
        \cup {[one EXCEPT !.form = fm] : fm \in {"unreadable", "malformed"}}
        \cup {[one EXCEPT !.dsn = ""], [one EXCEPT !.tables = <<>>]}
        \cup {[one EXCEPT !.tables = Append(@, e)] : e \in RejectedEntries}
        \cup {[one EXCEPT !.conn_max_lifetime = l] : l \in {" ", "30m", "30", "abc"}}

InitOverride ==
    /\ cfg \in {c \in Configs : /\ c.Engine = "progress" /\ c.BatchSize = 1
                               /\ ~c.DryRun /\ c.PK = <<"id">>}
    /\ w = NewScan(<<>>, cfg)
    /\ w2 = w
    /\ conv = NewPool
    /\ \E f \in OverrideFiles :
          run = [kind |-> "override", file |-> f, fc |-> NotLoaded, built |-> <<>>]

\* main.go: cfg, err := internal.LoadMySQLFileConfig(p)
LoadConfigFile ==
    /\ run.fc = NotLoaded
    /\ run' = [run EXCEPT !.fc = [loaded |-> TRUE, cfg |-> LoadMySQLFileConfig(run.file)]]
    /\ UNCHANGED <<cfg, w, w2, conv>>

\* the for loop of RunMySQLFromFileConfig is reached: the file loaded
\* (main.go exits otherwise) and its conn_max_lifetime parsed
LoopReached(r) ==
    /\ r.fc # NotLoaded
    /\ r.fc.cfg.err = "none"
    /\ ParseDurationOK(r.fc.cfg.ConnMaxLifetime)

\* one iteration of `for _, t := range fileCfg.Tables`: the table's MySQLConfig
BuildTableConfig ==
    /\ LoopReached(run)
    /\ Len(run.built) < Len(run.fc.cfg.Tables)
    /\ run' = [run EXCEPT !.built =
                  Append(@, TableConfig(run.fc.cfg, run.fc.cfg.Tables[Len(run.built) + 1]))]
    /\ UNCHANGED <<cfg, w, w2, conv>>

NextOverride == LoadConfigFile \/ BuildTableConfig

SpecOverride == InitOverride /\ [][NextOverride]_vars

\* table-level value when > 0, else file-level value when > 0, else default
Resolve3(tv, fv, def) == IF tv > 0 THEN tv ELSE IF fv > 0 THEN fv ELSE def

\* C20: three-tier override resolution. For every table entry, batch size
\* and workers passed to the scan are the table-level value when it is
\* > 0, otherwise the file-level value when it is > 0, otherwise 500 and
\* 8; rps is the table-level value when > 0, otherwise the file-level value
\* as written (0 when absent); the batch size is always > 0.
C20_OverrideResolution ==
    \A k \in 1..Len(run.built) :
        LET t == run.file.tables[k]
            c == run.built[k]
        IN  /\ c.BatchSize = Resolve3(t.batch_size, run.file.batch_size, 500)
            /\ c.Workers = Resolve3(t.workers, run.file.workers, 8)
            /\ c.RPS = (IF t.rps > 0 THEN t.rps ELSE run.file.rps)
            /\ c.BatchSize > 0

\* the second entry overrides the batch size, the first one falls back to
\* the default because the file gives none; workers come from the file
C20_Witness ==
    /\ Len(run.built) = 2
    /\ run.file.batch_size = 0
    /\ run.file.workers = 3
    /\ run.built[1].BatchSize = 500
    /\ run.built[2].BatchSize = 1
    /\ run.built[1].Workers = 3
    /\ run.built[2].Workers = 5
    /\ run.built[2].RPS = 6

-----------------------------------------------------------------------------
(* Concurrent calls of GetConverter (specification SpecPool). conv is a    *)
(* record:                                                                 *)
(*   ccPool  the map: variant -> converter instance (a number)             *)
(*   ccMu    0 when the mutex is free, else the goroutine holding it       *)
(*   th      per goroutine: pc ("idle", "lock", "lookup", "new", "store",  *)
(*           "unlock"), to, the instance c it holds (0: none), err, calls  *)
(*   built   the instances opencc.New has returned: <<variant, instance>>  *)
(*   rets    the successful returns: [to, inst]                            *)
(*   access  the accesses to ccPool: [g, op, locked]                       *)

Callers == 1..MaxCallers

NewPoolState ==
    [ccPool |-> <<>>,
     ccMu   |-> 0,
     th     |-> [g \in Callers |-> [pc |-> "idle", to |-> "", c |-> 0,
                                    err |-> FALSE, calls |-> 0]],
     built  |-> <<>>,
     rets   |-> {},
     access |-> {}]

InitPool ==
    /\ cfg \in {c \in Configs : /\ c.Engine = "progress" /\ c.BatchSize = 1
                               /\ ~c.DryRun /\ c.PK = <<"id">>}
    /\ w = NewScan(<<>>, cfg)
    /\ w2 = w
    /\ conv = NewPoolState
    /\ run = NoDriver

\* goroutine g calls GetConverter(to)
CallGetConverter ==
    /\ \E g \in Callers, to \in ConvVariants :
          /\ conv.th[g].pc = "idle"
          /\ conv.th[g].calls < MaxCalls
          /\ conv' = [conv EXCEPT !.th[g] = [pc |-> "lock", to |-> to, c |-> 0,
                                             err |-> FALSE, calls |-> @.calls + 1]]
    /\ UNCHANGED <<cfg, w, w2, run>>

\* mutant of MutexFree: Lock never waits
MutexFreeAlways(c) == TRUE

\* ccMu.Lock() can proceed
MutexFree(c) == c.ccMu = 0

\* ccMu.Lock()
LockPool ==
    /\ \E g \in Callers :
          /\ conv.th[g].pc = "lock"
          /\ MutexFree(conv)
          /\ conv' = [conv EXCEPT !.ccMu = g, !.th[g].pc = "lookup"]
    /\ UNCHANGED <<cfg, w, w2, run>>

\* one access of goroutine g to the map
Access(c, g, op) == c.access \cup {[g |-> g, op |-> op, locked |-> c.ccMu = g]}

\* if c, ok := ccPool[to]; ok && c != nil { return c, nil }
LookupPool ==
    /\ \E g \in Callers :
          /\ conv.th[g].pc = "lookup"
          /\ conv' = [conv EXCEPT
                 !.access = Access(conv, g, "read"),
                 !.th[g]  = IF conv.th[g].to \in DOMAIN conv.ccPool
                            THEN [@ EXCEPT !.c = conv.ccPool[conv.th[g].to], !.pc = "unlock"]
                            ELSE [@ EXCEPT !.pc = "new"]]
    /\ UNCHANGED <<cfg, w, w2, run>>

\* c, err := opencc.New(to)
NewConverter ==
    /\ \E g \in Callers :
          /\ conv.th[g].pc = "new"
          /\ IF conv.th[g].to \in KnownVariants
             THEN conv' = [conv EXCEPT
                      !.built = Append(@, <<conv.th[g].to, Len(conv.built) + 1>>),
                      !.th[g] = [@ EXCEPT !.c = Len(conv.built) + 1, !.pc = "store"]]
             ELSE conv' = [conv EXCEPT
                      !.th[g] = [@ EXCEPT !.err = TRUE, !.pc = "unlock"]]
    /\ UNCHANGED <<cfg, w, w2, run>>

\* ccPool[to] = c
StorePool ==
    /\ \E g \in Callers :
          /\ conv.th[g].pc = "store"
          /\ conv' = [conv EXCEPT
                 !.access = Access(conv, g, "write"),
                 !.ccPool = (conv.th[g].to :> conv.th[g].c) @@ @,
                 !.th[g].pc = "unlock"]
    /\ UNCHANGED <<cfg, w, w2, run>>

\* the deferred ccMu.Unlock(), and the return to the caller
UnlockPool ==
    /\ \E g \in Callers :
          /\ conv.th[g].pc = "unlock"
          /\ conv' = [conv EXCEPT
                 !.ccMu = IF @ = g THEN 0 ELSE @,
                 !.rets = IF conv.th[g].err THEN @
                          ELSE @ \cup {[to |-> conv.th[g].to, inst |-> conv.th[g].c]},
                 !.th[g].pc = "idle"]
    /\ UNCHANGED <<cfg, w, w2, run>>

NextPool ==
    \/ CallGetConverter \/ LockPool \/ LookupPool
    \/ NewConverter \/ StorePool \/ UnlockPool

SpecPool == InitPool /\ [][NextPool]_vars

\* C21: memoized converter factory. Under any interleaving of concurrent
\* GetConverter calls at most one converter is constructed per variant,
\* every successful call for a variant returns that one instance, and the
\* pool map is read and written only by the goroutine holding the lock.
C21_MemoizedFactory ==
    /\ \A i \in 1..Len(conv.built) : \A j \in 1..Len(conv.built) :
           conv.built[i][1] = conv.built[j][1] => i = j
    /\ \A r1 \in conv.rets : \A r2 \in conv.rets :
           r1.to = r2.to => r1.inst = r2.inst
    /\ \A r \in conv.rets : \E i \in 1..Len(conv.built) : conv.built[i] = <<r.to, r.inst>>
    /\ \A a \in conv.access : a.locked

\* both goroutines asked for the same variant: goroutine 1 built and stored
\* the converter, goroutine 2 only read the map and got the same instance
C21_Witness ==
    /\ Cardinality({i \in 1..Len(conv.built) : conv.built[i][1] = "s2twp"}) = 1
    /\ \E r \in conv.rets : r.to = "s2twp"
    /\ \A g \in Callers : conv.th[g].pc = "idle" /\ conv.th[g].to = "s2twp" /\ conv.th[g].c > 0
    /\ \E a \in conv.access : a.g = 1 /\ a.op = "write"
    /\ \E a \in conv.access : a.g = 2 /\ a.op = "read"
    /\ \A a \in conv.access : a.g = 2 => a.op = "read"

(***************************************************************************)
(* RunFile (src/internal/fileconv.go): a directory walk feeds a channel of *)
(* tasks to a pool of workers, each running processFile.  run holds the    *)
(* file system (path -> bytes, for the files that exist), the walker, the  *)
(* channel and the workers; ops logs every os.WriteFile call that has     *)
(* returned, seen and sent the files the walk visited and put on the       *)
(* channel, skipped the directories the walk could not read, done the      *)
(* processFile calls that returned.  An os.WriteFile call is two steps:    *)
(* the open that creates or truncates the file, then the write and close;  *)
(* steps of other workers come between them.                               *)
(* The tree is  ./r.txt  ./r.txt.bak  ./zsub/s.TXT  (+ backups made).      *)
(***************************************************************************)
DefaultFileWorkers == 4
ChanCap == 128

RootFiles == <<"r.txt", "r.txt.bak">>
SubFiles == <<"zsub/s.TXT", "zsub/s.TXT.bak">>

\* path + ".bak"
Bak(p) ==
    CASE p = "r.txt" -> "r.txt.bak"
      [] p = "r.txt.bak" -> "r.txt.bak.bak"
      [] p = "zsub/s.TXT" -> "zsub/s.TXT.bak"
      [] p = "zsub/s.TXT.bak" -> "zsub/s.TXT.bak.bak"
      [] OTHER -> "r.txt.bak.bak.bak"

\* filepath.Ext(d.Name())
RawExt(p) ==
    CASE p = "r.txt" -> ".txt"
      [] p = "zsub/s.TXT" -> ".TXT"
      [] OTHER -> ".bak"

\* strings.ToLower on the extensions used here
ToLower(e) ==
    CASE e = ".TXT" -> ".txt"
      [] e = "TXT" -> "txt"
      [] OTHER -> e

\* strings.ToLower(filepath.Ext(d.Name()))
LowerExt(p) == ToLower(RawExt(p))

\* one entry of cfg.Exts normalised: trimmed, lower case, leading dot
NormExt(e) ==
    CASE e \in {"txt", ".txt", ".TXT", "TXT"} -> ".txt"
      [] e \in {"bak", ".bak"} -> ".bak"
      [] OTHER -> e

ExtSet(exts) == {NormExt(exts[i]) : i \in {j \in 1..Len(exts) : exts[j] # ""}}

\* mutant of Selected: the extension of the file is compared as written
SelectedCaseSensitive(fc, p) == ExtSet(fc.Exts) = {} \/ RawExt(p) \in ExtSet(fc.Exts)

Selected(fc, p) == ExtSet(fc.Exts) = {} \/ LowerExt(p) \in ExtSet(fc.Exts)

WorkerCount(fc) == IF fc.Workers <= 0 THEN DefaultFileWorkers ELSE fc.Workers

\* the entries of a directory that exist, in the order ReadDir returns them
Listing(fs, names) == SelectSeq(names, LAMBDA p : p \in DOMAIN fs)

FileConfigs ==
    {fc \in [To : {"s2twp"}, Backup : BOOLEAN, DryRun : BOOLEAN,
             Workers : {0, 1, MaxWorkers}, Exts : {<<>>, <<"txt">>, <<".TXT">>}] :
       fc.Workers = 0 => fc.Exts = <<".TXT">>}

InitialFS ==
    {[p \in {"r.txt", "zsub/s.TXT"} |-> IF p = "r.txt" THEN c ELSE "jianti"] :
        c \in {"jianti", "abc"}}
    \cup
    {[p \in {"r.txt", "r.txt.bak", "zsub/s.TXT"} |->
        IF p = "r.txt" THEN c ELSE IF p = "r.txt.bak" THEN "jian" ELSE "jianti"] :
        c \in {"jianti", "abc"}}

IdleWorker == [pc |-> "recv", path |-> "", bs |-> "", out |-> ""]

NewRunFile(fc, fs) ==
    [kind |-> "runfile", fc |-> fc, fs |-> fs, fs0 |-> fs,
     walk |-> "start", pending |-> <<>>, ch |-> <<>>, closed |-> FALSE,
     wk |-> [g \in 1..WorkerCount(fc) |-> IdleWorker],
     ops |-> <<>>, errs |-> 0, faults |-> 0, skipped |-> {},
     seen |-> <<>>, sent |-> <<>>, done |-> <<>>]

InitRunFile ==
    /\ cfg \in {c \in Configs : c.Engine = "progress" /\ c.BatchSize = 1
                                /\ ~c.DryRun /\ c.PK = <<"id">>}
    /\ w = NewScan(<<>>, cfg)
    /\ w2 = w
    /\ conv = NewPool
    /\ \E fc \in FileConfigs : \E fs \in InitialFS : run = NewRunFile(fc, fs)

\* filepath.WalkDir on the root directory. When the root cannot be read
\* the callback gets the error, logs it and returns nil: nothing below the
\* root is visited and the walk is over
WalkRoot ==
    \E fail \in BOOLEAN :
      /\ run.walk = "start"
      /\ fail => run.faults < MaxFaults
      /\ run' = IF fail
                THEN [run EXCEPT !.walk = "sub", !.faults = @ + 1,
                                 !.skipped = {".", "zsub"}]
                ELSE [run EXCEPT !.walk = "root",
                                 !.pending = Listing(run.fs, RootFiles)]
      /\ UNCHANGED <<cfg, w, w2, conv>>

\* the walk callback for one file: filtered by extension, then ch <- task,
\* which waits for room in the channel
WalkFile ==
    /\ run.walk \in {"root", "sub"}
    /\ run.pending # <<>>
    /\ Selected(run.fc, Head(run.pending)) => Len(run.ch) < ChanCap
    /\ run' = [run EXCEPT
                 !.pending = Tail(run.pending),
                 !.seen = Append(@, Head(run.pending)),
                 !.sent = IF Selected(run.fc, Head(run.pending))
                          THEN Append(@, Head(run.pending)) ELSE @,
                 !.ch = IF Selected(run.fc, Head(run.pending))
                        THEN Append(run.ch, Head(run.pending)) ELSE run.ch]
    /\ UNCHANGED <<cfg, w, w2, conv>>

\* the walk comes to the sub-directory and reads it. When it cannot be
\* read the callback gets the error, logs it and returns nil: the files
\* below are skipped and the walk goes on
WalkSub ==
    \E fail \in BOOLEAN :
      /\ run.walk = "root"
      /\ run.pending = <<>>
      /\ fail => run.faults < MaxFaults
      /\ run' = IF fail
                THEN [run EXCEPT !.walk = "sub", !.faults = @ + 1,
                                 !.skipped = {"zsub"}]
                ELSE [run EXCEPT !.walk = "sub",
                                 !.pending = Listing(run.fs, SubFiles)]
      /\ UNCHANGED <<cfg, w, w2, conv>>

\* close(ch) after the walk
CloseCh ==
    /\ run.walk = "sub"
    /\ run.pending = <<>>
    /\ run' = [run EXCEPT !.walk = "wait", !.closed = TRUE]
    /\ UNCHANGED <<cfg, w, w2, conv>>

\* a worker receives a task: for t := range ch
Recv ==
    \E g \in DOMAIN run.wk :
      /\ run.wk[g].pc = "recv"
      /\ run.ch # <<>>
      /\ run' = [run EXCEPT !.ch = Tail(run.ch),
                            !.wk[g] = [IdleWorker EXCEPT !.pc = "read",
                                                         !.path = Head(run.ch)]]
      /\ UNCHANGED <<cfg, w, w2, conv>>

\* the range loop of a worker ends on the closed, drained channel
WorkerExit ==
    \E g \in DOMAIN run.wk :
      /\ run.wk[g].pc = "recv"
      /\ run.ch = <<>>
      /\ run.closed
      /\ run' = [run EXCEPT !.wk[g].pc = "exit"]
      /\ UNCHANGED <<cfg, w, w2, conv>>

\* processFile(t.path, ...) of worker g has returned
Processed(g) == [g |-> g, path |-> run.wk[g].path]

\* where processFile goes once the file needs a conversion
AfterNeed(fc) ==
    IF fc.DryRun THEN "recv" ELSE IF fc.Backup THEN "backup" ELSE "write"

\* processFile up to the dry-run test: os.ReadFile, ConvertIfNeeded. The
\* read sees the bytes the file holds at that moment, also those of a file
\* another worker is writing
ReadAndConvert ==
    \E g \in DOMAIN run.wk : \E fail \in BOOLEAN :
      /\ run.wk[g].pc = "read"
      /\ fail => run.faults < MaxFaults
      /\ LET p == run.wk[g].path
             bs == run.fs[p]
             r == ConvertIfNeeded(run.fc.To, bs)
         IN  run' =
               IF fail
               THEN [run EXCEPT !.wk[g] = IdleWorker, !.done = Append(@, Processed(g)), !.errs = @ + 1,
                                !.faults = @ + 1]
               ELSE IF r.err
               THEN [run EXCEPT !.wk[g] = IdleWorker, !.done = Append(@, Processed(g)), !.errs = @ + 1]
               ELSE IF ~r.need
               THEN [run EXCEPT !.wk[g] = IdleWorker, !.done = Append(@, Processed(g))]
               ELSE IF AfterNeed(run.fc) = "recv"
               THEN [run EXCEPT !.wk[g] = IdleWorker, !.done = Append(@, Processed(g))]
               ELSE [run EXCEPT !.wk[g] = [pc |-> AfterNeed(run.fc), path |-> p,
                                           bs |-> bs, out |-> r.out]]
      /\ UNCHANGED <<cfg, w, w2, conv>>

\* length of the UTF-8 encoding of a code point (up to U+FFFF)
Utf8Len(r) == IF r < 128 THEN 1 ELSE IF r < 2048 THEN 2 ELSE 3

\* the texts a file can hold here
FileTexts == {"", "abc", "jian", "jianti", "fan", "hunti", "fanti"}

\* the text made of the given code points
FromRunes(rs) == CHOOSE s \in FileTexts : Runes(s) = rs

\* the bytes of a file after data was written at offset 0 over cur: data,
\* followed by what cur holds beyond the length of data (texts whose code
\* points all take three bytes)
Overlay(data, cur) ==
    IF Len(Runes(cur)) <= Len(Runes(data)) \/ data = ""
    THEN IF data = "" THEN cur ELSE data
    ELSE FromRunes(Runes(data) \o SubSeq(Runes(cur), Len(Runes(data)) + 1, Len(Runes(cur))))

\* os.WriteFile, first system call: open with O_WRONLY|O_CREATE|O_TRUNC
OpenTrunc(fs, name) ==
    [q \in DOMAIN fs \cup {name} |-> IF q = name THEN "" ELSE fs[q]]

\* os.WriteFile, then: write of data through the descriptor, whose offset
\* is 0, onto what the file holds by now, and close
WriteFile(fs, name, data) == [fs EXCEPT ![name] = Overlay(data, fs[name])]

\* the log entry of an os.WriteFile call made by worker g
WriteOp(g, kind, ok) ==
    [g |-> g, path |-> run.wk[g].path, kind |-> kind, ok |-> ok,
     orig |-> run.wk[g].bs]

\* os.WriteFile(path+".bak", bs, 0644): the file is opened and truncated
OpenBackup ==
    \E g \in DOMAIN run.wk : \E fail \in BOOLEAN :
      /\ run.wk[g].pc = "backup"
      /\ fail => run.faults < MaxFaults
      /\ run' =
           IF fail
           THEN [run EXCEPT !.wk[g] = IdleWorker, !.done = Append(@, Processed(g)), !.errs = @ + 1,
                            !.faults = @ + 1,
                            !.ops = Append(@, WriteOp(g, "bak", FALSE))]
           ELSE [run EXCEPT !.wk[g].pc = "bakdata",
                            !.fs = OpenTrunc(@, Bak(run.wk[g].path))]
      /\ UNCHANGED <<cfg, w, w2, conv>>

\* os.WriteFile(path+".bak", bs, 0644): the bytes are written, the call
\* returns
WriteBackup ==
    \E g \in DOMAIN run.wk : \E fail \in BOOLEAN :
      /\ run.wk[g].pc = "bakdata"
      /\ fail => run.faults < MaxFaults
      /\ run' =
           IF fail
           THEN [run EXCEPT !.wk[g] = IdleWorker, !.done = Append(@, Processed(g)), !.errs = @ + 1,
                            !.faults = @ + 1,
                            !.ops = Append(@, WriteOp(g, "bak", FALSE))]
           ELSE [run EXCEPT !.wk[g].pc = "write",
                            !.fs = WriteFile(@, Bak(run.wk[g].path), run.wk[g].bs),
                            !.ops = Append(@, WriteOp(g, "bak", TRUE))]
      /\ UNCHANGED <<cfg, w, w2, conv>>

\* os.WriteFile(path, []byte(out), 0644): the file is opened and truncated
OpenTarget ==
    \E g \in DOMAIN run.wk : \E fail \in BOOLEAN :
      /\ run.wk[g].pc = "write"
      /\ fail => run.faults < MaxFaults
      /\ run' =
           IF fail
           THEN [run EXCEPT !.wk[g] = IdleWorker, !.done = Append(@, Processed(g)), !.errs = @ + 1,
                            !.faults = @ + 1,
                            !.ops = Append(@, WriteOp(g, "target", FALSE))]
           ELSE [run EXCEPT !.wk[g].pc = "data",
                            !.fs = OpenTrunc(@, run.wk[g].path)]
      /\ UNCHANGED <<cfg, w, w2, conv>>

\* os.WriteFile(path, []byte(out), 0644): the bytes are written, the call
\* returns
WriteBack ==
    \E g \in DOMAIN run.wk : \E fail \in BOOLEAN :
      /\ run.wk[g].pc = "data"
      /\ fail => run.faults < MaxFaults
      /\ run' =
           IF fail
           THEN [run EXCEPT !.wk[g] = IdleWorker, !.done = Append(@, Processed(g)), !.errs = @ + 1,
                            !.faults = @ + 1,
                            !.ops = Append(@, WriteOp(g, "target", FALSE))]
           ELSE [run EXCEPT !.wk[g] = IdleWorker, !.done = Append(@, Processed(g)),
                            !.fs = WriteFile(@, run.wk[g].path, run.wk[g].out),
                            !.ops = Append(@, WriteOp(g, "target", TRUE))]
      /\ UNCHANGED <<cfg, w, w2, conv>>

\* wg.Wait() and return
RunFileReturn ==
    /\ run.walk = "wait"
    /\ \A g \in DOMAIN run.wk : run.wk[g].pc = "exit"
    /\ run' = [run EXCEPT !.walk = "returned"]
    /\ UNCHANGED <<cfg, w, w2, conv>>

NextRunFile ==
    \/ WalkRoot \/ WalkFile \/ WalkSub \/ CloseCh
    \/ Recv \/ WorkerExit
    \/ ReadAndConvert \/ OpenBackup \/ WriteBackup \/ OpenTarget \/ WriteBack
    \/ RunFileReturn

SpecRunFile == InitRunFile /\ [][NextRunFile]_vars

\* worker g overwrites its file in this step: the open that truncates it
Overwrites(g) == run.wk[g].pc = "write" /\ run'.wk[g].pc = "data"

\* the .bak of the file worker g works on holds the bytes g read from it
BackupHolds(g) ==
    /\ Bak(run.wk[g].path) \in DOMAIN run.fs
    /\ run.fs[Bak(run.wk[g].path)] = run.wk[g].bs

\* worker g has written the .bak of its file: the call returned nil
BackupWritten(g) ==
    \E i \in 1..Len(run.ops) :
      /\ run.ops[i].kind = "bak" /\ run.ops[i].ok
      /\ run.ops[i].g = g /\ run.ops[i].path = run.wk[g].path

\* the write of a .bak by worker g fails in this step
BackupFails(g) ==
    /\ run.wk[g].pc \in {"backup", "bakdata"}
    /\ run'.wk[g].pc = "recv"

\* C22: file dry run and backup.  With dry-run set no os.WriteFile call is
\* made and the file system stays as it was, whatever the number of
\* workers; in live mode with backup enabled, when a file is overwritten
\* its .bak has been written and holds the bytes that were read from the
\* file, and a file whose backup could not be written keeps its bytes and
\* is not written by that worker.
C22_DryRunAndBackup ==
    [][ /\ run.fc.DryRun => (run'.ops = <<>> /\ run'.fs = run.fs0)
        /\ (~run.fc.DryRun /\ run.fc.Backup) =>
             \A g \in DOMAIN run.wk :
               /\ Overwrites(g) => (BackupWritten(g) /\ BackupHolds(g))
               /\ BackupFails(g) =>
                    run'.fs[run.wk[g].path] = run.fs[run.wk[g].path]
      ]_vars

-----------------------------------------------------------------------------
(* Offset advancement (C23), checked under Spec *)

\* the offset scan leaves a batch of k >= 1 returned rows
LeavesBatch == ~Keyset(cfg) /\ w.pc = "advance" /\ w'.pc # "advance" /\ w.fetched >= 1

\* C23: offset advancement. In offset mode, after every batch for which
\* the SELECT returned k >= 1 rows the offset has grown by exactly k,
\* whether or not the rows needed an update or decoded successfully.
C23_OffsetAdvancesByReturned ==
    [][LeavesBatch => w'.offset = w.offset + w.fetched]_vars

-----------------------------------------------------------------------------
(* SpecRow: the scan of Spec over tables whose rows hold, in the two       *)
(* transform columns, every combination of a text that converts, a text    *)
(* that is already converted, a text the converter fails on, the empty     *)
(* string and NULL.                                                        *)

\* the transform columns (a, b) of a row
PairValues ==
    { <<NS("jianti"), NS("jianti")>>, <<NS("huai"), NS("jianti")>>,
      <<NS("jianti"), NS("huai")>>,   <<NS("jianti"), NullNS>>,
      <<NS(""), NS("jianti")>>,       <<NS("abc"), NullNS>> }

RowIds == <<"1", "2", "3">>

PairTables ==
    UNION {{[k \in 1..n |-> MkRow(NS(RowIds[k]), NullNS, ab[k][1], ab[k][2])] :
               ab \in [1..n -> PairValues]} :
           n \in 1..MaxPairRows}

PairConfigs ==
    {c \in Configs : c.BatchSize = MaxBatch /\ c.IdentifyBy = <<>>
                     /\ c.PK \in {<<"id">>, <<>>}}

InitRow ==
    /\ cfg \in PairConfigs
    /\ \E t \in PairTables : w = NewScan(t, cfg)
    /\ w2 = w
    /\ conv = NewPool
    /\ run = NoDriver

SpecRow == InitRow /\ [][Next]_vars

\* the column of a fetched row holds a text the conversion changes
Converts(c, vals, col) ==
    /\ vals[col].Valid
    /\ vals[col].String # ""
    /\ ~ConvertIfNeeded(c.To, vals[col].String).err
    /\ ConvertIfNeeded(c.To, vals[col].String).out # vals[col].String

\* the ChangedSet of a fetched row, as columns
ChangedSet(c, vals) == {col \in Range(c.Columns) : Converts(c, vals, col)}

\* the step takes the row at w.i through the transform step in live mode
TransformsRow == w.pc = "rows" /\ ~cfg.DryRun /\ Len(w'.visits) = Len(w.visits) + 1

\* the statement the step passed to ExecContext
Issued == w'.execLog[Len(w'.execLog)]

PerRowDecision ==
    TransformsRow =>
      LET r  == w.batch[w.i]
          cs == ChangedSet(cfg, r.vals)
      IN  /\ cs = {} => w'.execLog = w.execLog
          /\ cs # {} =>
               /\ Len(w'.execLog) = Len(w.execLog) + 1
               /\ Issued.rid = r.rid
               /\ Issued.sql.set = SelectSeq(cfg.Columns, LAMBDA col : col \in cs)
          /\ \A k \in 1..Len(w.table) : \A col \in Range(cfg.Columns) \ cs :
               w.table[k] = r.vals => w'.table[k][col] = w.table[k][col]

\* C24: per-row update decision. For every fetched row that reaches the
\* transform step in live mode exactly one UPDATE is issued when its
\* ChangedSet is not empty and none when it is empty; the SET clause lists
\* exactly the columns of the ChangedSet in configured column order, and a
\* column of the row that did not change keeps its value.
C24_PerRowUpdateDecision == [][PerRowDecision]_vars

\* a live scan issued one UPDATE with SET a, b for a row whose two columns
\* changed and none for a row with nothing to change
C24_Witness ==
    /\ ~cfg.DryRun
    /\ w.pc = "done"
    /\ Len(w.visits) = 2
    /\ Len(w.execLog) = 1
    /\ w.execLog[1].sql.set = <<"a", "b">>
    /\ ~w.execLog[1].err
    /\ \E k \in 1..Len(w.table) : w.table[k]["a"] = NS("fanti") /\ w.table[k]["b"] = NS("fanti")
    /\ \E k \in 1..Len(w.table) : w.table[k]["a"] = NS("abc") /\ ~w.table[k]["b"].Valid

PartialRow ==
    TransformsRow =>
      LET r == w.batch[w.i]
      IN  \A col \in Range(cfg.Columns) :
            (/\ Converts(cfg, r.vals, col)
             /\ \E other \in Range(cfg.Columns) \ {col} :
                  \/ ~r.vals[other].Valid
                  \/ r.vals[other].String = ""
                  \/ ConvertIfNeeded(cfg.To, r.vals[other].String).err)
            => /\ Len(w'.execLog) = Len(w.execLog) + 1
               /\ Issued.rid = r.rid
               /\ \E i \in 1..Len(Issued.sql.set) : Issued.sql.set[i] = col
               /\ \A other \in Range(cfg.Columns) \ {col} :
                    ~Converts(cfg, r.vals, other) =>
                       \A i \in 1..Len(Issued.sql.set) : Issued.sql.set[i] # other

\* C25: partial-row success. When one transform column of a row fails to
\* convert, or is NULL or empty, only that column is left out: every other
\* transform column that converts to a different text is in the SET clause
\* of the row's UPDATE.
C25_PartialRowSuccess == [][PartialRow]_vars

\* a live scan updated column b of a row whose column a failed to convert,
\* and column a of a row whose column b is NULL
C25_Witness ==
    /\ ~cfg.DryRun
    /\ Len(w.execLog) = 2
    /\ \E i \in 1..2 :
         /\ w.execLog[i].vals["a"] = NS("huai")
         /\ w.execLog[i].sql.set = <<"b">>
         /\ ~w.execLog[i].err
    /\ \E i \in 1..2 :
         /\ ~w.execLog[i].vals["b"].Valid
         /\ w.execLog[i].sql.set = <<"a">>
    /\ \E k \in 1..Len(w.table) : w.table[k]["a"] = NS("huai") /\ w.table[k]["b"] = NS("fanti")

-----------------------------------------------------------------------------
(* Keyset start sentinel (C26), checked under Spec *)

\* the successful SELECTs before the j-th one that gave a non-empty batch
FilledBefore(x, j) == {i \in 1..(j - 1) : x.selLog[i].ok /\ x.selLog[i].batch # <<>>}

\* the last row of the latest non-empty batch before the j-th SELECT
LastRowBefore(x, j) ==
    LET i == CHOOSE m \in FilledBefore(x, j) : \A o \in FilledBefore(x, j) : o <= m
    IN  x.selLog[i].batch[Len(x.selLog[i].batch)]

\* C26: keyset start sentinel. A batch SELECT omits the WHERE tuple
\* comparison only while no non-empty batch has been processed; every
\* SELECT issued after a non-empty batch carries the comparison with the
\* key tuple of that batch's last row, NULL components included.
C26_KeysetStartSentinel ==
    Keyset(cfg) =>
      \A j \in 1..Len(w.selLog) :
        IF FilledBefore(w, j) = {}
        THEN ~w.selLog[j].q.where
        ELSE /\ w.selLog[j].q.where
             /\ \A i \in 1..Len(cfg.PK) :
                  w.selLog[j].q.args[i] = nz(KeyAt(w, cfg, LastRowBefore(w, j))[i])

-----------------------------------------------------------------------------
(* Sequential phases (C27), checked under Spec *)

\* the rows of the open result set that rows.Next has handed out: the
\* keyset loop drains the result set before its row loop, the offset loop
\* is at row x.i of it while it processes that row
RowsRead(x, c) ==
    IF ~Keyset(c) /\ x.pc = "rows" THEN x.i ELSE x.fetched

\* an UPDATE is passed to the server only once the batch is read in full
UpdateAfterFetch ==
    Len(w'.execLog) > Len(w.execLog) => RowsRead(w, cfg) = w.fetched

\* a SELECT is issued only once the row loop has gone through the batch
SelectAfterBatch ==
    w'.nsel > w.nsel =>
      /\ w.pc = "select"
      /\ w.batch # <<>> => w.i = Len(w.batch) + 1
      /\ Keyset(cfg) /\ w.batch # <<>> =>
           Rids(w.batch) = [k \in 1..Len(w.batch) |->
                               w.visits[Len(w.visits) - Len(w.batch) + k].rid]

\* C27: sequential phases within one table scan. A batch is completely
\* fetched before the first UPDATE for one of its rows is issued, and every
\* row of the batch has gone through transform and update before the next
\* batch SELECT is issued, in keyset mode and in offset mode.
C27_SequentialPhases == [][UpdateAfterFetch /\ SelectAfterBatch]_vars

-----------------------------------------------------------------------------
(* Identify-by validation (C28), checked under Spec *)

\* C28: identify-by validation. In offset mode with identify_by configured
\* the WHERE clause of every UPDATE has exactly one predicate for each
\* configured identify-by column, in particular it is never empty: a
\* configured column the table does not have is not silently dropped.
C28_IdentifyByValidation ==
    (~Keyset(cfg) /\ Len(cfg.IdentifyBy) > 0) =>
      \A k \in 1..Len(w.execLog) :
        /\ w.execLog[k].sql.where # <<>>
        /\ Len(w.execLog[k].sql.where) = Len(cfg.IdentifyBy)
        /\ \A i \in 1..Len(cfg.IdentifyBy) :
             w.execLog[k].sql.where[i].col = cfg.IdentifyBy[i]

-----------------------------------------------------------------------------
(* SpecStart: the two ways of starting a scan.  The single-table command   *)
(* builds MySQLConfig from its flags (main.go) and calls RunMySQL; the     *)
(* config-file command goes through LoadMySQLFileConfig and the table      *)
(* overrides of RunMySQLFromFileConfig.  The steps are those of Spec.      *)

\* --batch-size, --dry-run, --pk as parsed from the command line
FlagSets ==
    [batch_size : {0, 1, MaxBatch}, dry_run : BOOLEAN, pk : {<<"id">>, <<>>}]

\* main.go: the MySQLConfig of the single-table command
FlagConfig(fl, engine) ==
    [Engine     |-> engine,
     PK         |-> fl.pk,
     IdentifyBy |-> <<>>,
     Columns    |-> <<"a", "b">>,
     To         |-> "s2twp",
     BatchSize  |-> fl.batch_size,
     DryRun     |-> fl.dry_run]

StartFiles ==
    { ConfigFile(bs, 0, 0, dr, 0, <<TableEntry(ad, tb, 0, 0)>>) :
      bs \in {-1, 0, 1}, tb \in {-1, 0, MaxBatch}, dr \in {"true", "false"},
      ad \in {a \in Addressing : a.IdentifyBy = <<>> /\ Len(a.PK) <= 1} }

InitStart ==
    /\ \/ \E fl \in FlagSets, e \in {"progress", "plain"} :
             /\ run = [kind |-> "flags", flags |-> fl]
             /\ cfg = FlagConfig(fl, e)
       \/ \E f \in StartFiles :
             /\ LoadError(f) = "none"
             /\ run = FileRun(f)
             /\ cfg = TableConfig(LoadMySQLFileConfig(f), f.tables[1])
    /\ \E t \in Tables : w = NewScan(t, cfg)
    /\ w2 = w
    /\ conv = NewPool

SpecStart == InitStart /\ [][Next]_vars

\* C29: the batch size reaching the scan engine is > 0 for every way of
\* starting a scan: no batch SELECT is issued with LIMIT 0 or below, and no
\* scan returns as complete with such a batch size.
C29_BatchSizePositive ==
    (w.nsel > 0 \/ w.ret = "nil") => cfg.BatchSize > 0

-----------------------------------------------------------------------------
(* Placeholder / argument alignment of mysql.go processNoPK (C30),         *)
(* checked under SpecOffset                                                *)

\* the columns of the `col = ?` predicates of a WHERE clause, in text order
EqCols(where) ==
    LET eqs == SelectSeq(where, LAMBDA p : p.op = "eq")
    IN  [i \in 1..Len(eqs) |-> eqs[i].col]

\* the values the placeholders of a statement stand for, in text order:
\* the converted texts of the SET columns, then the row's values of the
\* WHERE columns compared with `= ?`
PlaceholderValues(c, e) ==
    [i \in 1..Len(e.sql.set) |-> OpenCCConvert(c.To, e.vals[e.sql.set[i]].String)]
    \o [i \in 1..Len(EqCols(e.sql.where)) |-> e.vals[EqCols(e.sql.where)[i]].String]

\* C30: placeholder/argument alignment in the offset-mode planner of
\* mysql.go. For every UPDATE it builds, the i-th bound argument is the
\* value for the i-th placeholder of the statement text: the new values of
\* the SET columns first, then the identify-by or whole-row values.
C30_ArgumentAlignment ==
    (cfg.Engine = "plain" /\ ~Keyset(cfg)) =>
      \A k \in 1..Len(w.execLog) :
        w.execLog[k].args = PlaceholderValues(cfg, w.execLog[k])

-----------------------------------------------------------------------------
(* SpecWait: one run of RunMySQL to its end.  RunMySQL of part_000 makes   *)
(* the progress container and defers p.Wait(); the steps before that are   *)
(* those of SpecSetup.  p.Wait() returns once every bar added to the       *)
(* container is complete.                                                  *)

WaitConfigs ==
    {c \in SetupConfigs : /\ c.BatchSize = 1 /\ c.Columns # <<>> /\ c.To = "s2twp"
                          /\ c.IdentifyBy = <<>> /\ Len(c.PK) <= 1}

InitWait ==
    /\ cfg \in WaitConfigs
    /\ \E t \in {u \in Tables : Len(u) <= 1} : w = NewScan(t, cfg)
    /\ w2 = w
    /\ conv = NewPool
    /\ run = NewSetup

\* the deferred p.Wait() returns and RunMySQL returns to its caller
WaitReturns ==
    /\ run.pc = "returned"
    /\ run.bar # "open"
    /\ run' = [run EXCEPT !.pc = "exited"]
    /\ UNCHANGED <<cfg, w, w2, conv>>

NextWait == SetupStep \/ ScanRunning \/ ScanReturned \/ WaitReturns

\* every step that can be taken is eventually taken: the goroutine runs
SpecWait == InitWait /\ [][NextWait]_vars /\ WF_vars(NextWait)

\* C31: run termination with the progress container. Every return path of
\* a table scan that was given a bar leaves the bar complete, so once the
\* scan has returned the container's Wait returns and RunMySQL returns.
C31_RunTerminates ==
    (run.pc = "returned") ~> (run.pc = "exited" /\ run.bar # "open")

-----------------------------------------------------------------------------
(* File worker pool (C32), checked under SpecRunFile *)

\* an extension without its leading dot, in lower case
Fold(e) ==
    CASE e \in {"txt", ".txt", "TXT", ".TXT"} -> "txt"
      [] e \in {"bak", ".bak"} -> "bak"
      [] OTHER -> e

\* the file is one the configured extensions ask for
Wanted(fc, p) ==
    \/ fc.Exts = <<>>
    \/ \E i \in 1..Len(fc.Exts) : Fold(fc.Exts[i]) = Fold(RawExt(p))

\* the directory of a file of the tree
DirOf(p) == IF p \in Range(SubFiles) THEN "zsub" ELSE "."

\* where a selected file is: waiting on the channel, held by a worker
\* inside processFile, or processed
Queued(p) == {i \in 1..Len(run.ch) : run.ch[i] = p}
Holding(p) == {g \in DOMAIN run.wk : run.wk[g].pc \in {"read", "backup", "bakdata", "write", "data"}
                                     /\ run.wk[g].path = p}
DoneBy(p) == {i \in 1..Len(run.done) : run.done[i].path = p}

\* C32: file worker pool. The walk puts on the channel exactly the files
\* whose extension matches a configured one (case-insensitively, leading
\* dot or not; every file when none is configured); each of them is taken
\* by one worker and processed once, also when another file failed; and
\* RunFile returns only when every selected file has been processed and
\* every worker has exited.
C32_WorkerPool ==
    /\ run.sent = SelectSeq(run.seen, LAMBDA p : Wanted(run.fc, p))
    /\ \A i \in 1..Len(run.seen) : \A j \in 1..Len(run.seen) :
         run.seen[i] = run.seen[j] => i = j
    /\ run.closed =>
         \A p \in DOMAIN run.fs0 : DirOf(p) \notin run.skipped => p \in Range(run.seen)
    /\ \A p \in Range(run.sent) :
         Cardinality(Queued(p)) + Cardinality(Holding(p)) + Cardinality(DoneBy(p)) = 1
    /\ \A i \in 1..Len(run.done) : run.done[i].path \in Range(run.sent)
    /\ run.walk = "returned" =>
         /\ \A g \in DOMAIN run.wk : run.wk[g].pc = "exit"
         /\ run.ch = <<>>
         /\ \A p \in Range(run.sent) : Cardinality(DoneBy(p)) = 1

\* RunFile returned with extension ".TXT" configured: r.txt and zsub/s.TXT
\* were selected and r.txt.bak was not, one of them failed, and two
\* workers processed one file each
C32_Witness ==
    /\ run.walk = "returned"
    /\ run.fc.Exts = <<".TXT">>
    /\ "r.txt.bak" \in DOMAIN run.fs0
    /\ run.sent = <<"r.txt", "zsub/s.TXT">>
    /\ run.errs = 1
    /\ Len(run.done) = 2
    /\ run.done[1].g # run.done[2].g

====
